---- MODULE Spec2Model ----
(***************************************************************************)
(* A model of ratmole's item index and use-path resolver: module paths and *)
(* use-paths (item/structs.rs, use_path.rs), the per-kind item tree        *)
(* (tree.rs), the item extractors (item.rs, item/*.rs) and the resolver    *)
(* (explore.rs).                                                           *)
(*                                                                         *)
(* Every operation of the program is an operator computed the way the     *)
(* source computes it; a panic (unwrap on None, index out of range,       *)
(* panic!) is the outcome pc = "panic".  HashMap values are functions     *)
(* whose domain is the set of keys; HashMap::insert on a present key      *)
(* replaces the value.  The iteration order of a HashMap is not fixed by  *)
(* the program; the operators list the entries in one canonical order,    *)
(* and the indexing run (SpecRun) takes every order a HashMap may give.   *)
(***************************************************************************)
EXTENDS Integers, Sequences, FiniteSets, TLC

VARIABLES
    pc,             \* position of the operation under study: "start", "done", "panic"
    use_path,       \* the use-path argument (&UsePath) of the operation
    containing_mod, \* the module argument (&Path) of the operation
    local_path,     \* the mutable clone of use_path the operation rewrites
    start_mod,      \* the Path returned by delocalize / used as base of the lookup
    changed,        \* the bool returned by extern_crate_rename
    result,         \* the Vec of resolved entries returned by a lookup
    items,          \* per kind: the slice of extracted items the tree is built from
    trees,          \* per kind: the root PathNode of the item tree
    extern_crates,  \* HashMap<Path, Vec<ExternCrate>> of the resolver
    edition,        \* edition of the crate being resolved
    ast,            \* the syn item list handed to an extractor
    things,         \* the HashMap<Path, Vec<R>> an extractor returns
    fs,             \* the file snapshot: file path |-> what reading and parsing it gives
    pkgs,           \* the packages of the run, the main package first
    seed,           \* the explore.rs Module whose sub-modules are discovered
    sub_mods,       \* the Vec<Module> returned by direct_submodules
    parsed,         \* the calls of things_from_file: module path, file, what it returned
    generator,      \* the extractor passed as gen
    output,         \* the (module, use-path, resolved items) tuples printed
    remaining,      \* the use declarations the loop of std_lib_info has yet to visit
    dep_graph,      \* DepGraph.root: the crate of the main package with its dependencies
    dag,            \* Dag.nodes: the Vec<Node> built by DepGraph::dag
    pkg_order       \* the Vec of packages returned by Dag::topological_order

\* the variables of module discovery and of the indexing run
depgraph == <<dep_graph, dag, pkg_order>>

discovery == <<fs, pkgs, seed, sub_mods, parsed, generator, output, remaining, depgraph>>

vars == <<pc, use_path, containing_mod, local_path, start_mod, changed, result,
          items, trees, extern_crates, edition, ast, things, discovery>>

(***************************************************************************)
(* Bounds of the model.                                                    *)
(***************************************************************************)
MaxPrefixLen == 2   \* number of use-path segments before the last one
MaxModDepth == 3    \* number of segments of a containing module

Max(a, b) == IF a >= b THEN a ELSE b

Last(s) == s[Len(s)]

Front(s) == SubSeq(s, 1, Len(s) - 1)

(***************************************************************************)
(* item/structs.rs: Path and PathComponent.                                *)
(***************************************************************************)
PathComponent_Name(n) == [t |-> "Name", name |-> n]

PathComponent_from(comp) ==
    CASE comp = ""      -> [t |-> "Global"]
      [] comp = "self"  -> [t |-> "SmallSelf"]
      [] comp = "Self"  -> [t |-> "BigSelf"]
      [] comp = "super" -> [t |-> "Super"]
      [] comp = "crate" -> [t |-> "Crate"]
      [] OTHER          -> PathComponent_Name(comp)

PathComponent_to_string(comp) ==
    CASE comp.t = "Global"    -> ""
      [] comp.t = "SmallSelf" -> "self"
      [] comp.t = "BigSelf"   -> "Self"
      [] comp.t = "Super"     -> "super"
      [] comp.t = "Crate"     -> "crate"
      [] comp.t = "Name"      -> comp.name

\* Path::from(Vec<&str>)
Path_from(comps) == [i \in 1..Len(comps) |-> PathComponent_from(comps[i])]

\* Path::push_name
push_name(path, comp) == Append(path, PathComponent_Name(comp))

\* Path::pop: Vec::pop, which leaves an empty vector empty
Path_pop(path) == IF path = <<>> THEN <<>> ELSE Front(path)

(***************************************************************************)
(* use_path.rs: UsePathComponent and UsePath.                              *)
(***************************************************************************)
UName(n) == [t |-> "Name", name |-> n]

URename(n, a) == [t |-> "Rename", name |-> n, alias |-> a]

UGlob == [t |-> "Glob"]

UEmpty == [t |-> "Empty"]

UsePath_new(path, vis) == [path |-> path, vis |-> vis]

\* UsePath::delocalize, the `super` arm with the base left as it is
delocalize_super_kept(new_mod) == new_mod

\* UsePath::delocalize, the `super` arm: new_mod.pop(), None on an empty Vec
delocalize_super(new_mod) == Path_pop(new_mod)

\* UsePath::delocalize, the `crate` arm: clear the base, push the crate name
delocalize_crate_noclear(new_mod, module) == Append(new_mod, module[1])

delocalize_crate(new_mod, module) == <<module[1]>>

\* the else arm taken for a segment to skip: the loop ends without a panic
invalid_use_path_ignored(new_path, new_mod) ==
    [panic |-> FALSE, new_path |-> new_path, new_mod |-> new_mod]

\* UsePath::delocalize, the else arm: panic!("Invalid use path {}", self)
invalid_use_path(new_path, new_mod) ==
    [panic |-> TRUE, new_path |-> new_path, new_mod |-> new_mod]

\* UsePath::delocalize, the loop over self.path[0..len-1] from index i on.
\* module.components()[0] on an empty module is an index panic.
RECURSIVE delocalize_loop(_, _, _, _, _)
delocalize_loop(path, i, new_path, new_mod, module) ==
    IF i > Len(path) - 1
    THEN [panic |-> FALSE, new_path |-> new_path, new_mod |-> new_mod]
    ELSE LET comp == path[i] IN
         IF comp.t = "Name"
         THEN IF comp.name = "super"
              THEN delocalize_loop(path, i + 1, new_path, delocalize_super(new_mod), module)
              ELSE IF comp.name = "crate"
              THEN IF module = <<>>
                   THEN [panic |-> TRUE, new_path |-> new_path, new_mod |-> new_mod]
                   ELSE delocalize_loop(path, i + 1, new_path,
                                        delocalize_crate(new_mod, module), module)
              ELSE IF comp.name = "self"
              THEN delocalize_loop(path, i + 1, new_path, new_mod, module)
              ELSE delocalize_loop(path, i + 1, Append(new_path, UName(comp.name)),
                                   new_mod, module)
         ELSE invalid_use_path(new_path, new_mod)

\* UsePath::delocalize: the rewritten use-path and the returned base.
\* On an empty path the slice bound len - 1 underflows: a panic.
delocalize(up, module) ==
    IF up.path = <<>>
    THEN [panic |-> TRUE, use_path |-> up, ret |-> <<>>]
    ELSE LET r == delocalize_loop(up.path, 1, <<>>, module, module) IN
         IF r.panic
         THEN [panic |-> TRUE, use_path |-> up, ret |-> <<>>]
         ELSE [panic |-> FALSE,
               use_path |-> [up EXCEPT !.path = Append(r.new_path, Last(up.path))],
               ret |-> r.new_mod]

(***************************************************************************)
(* Inputs of the bounded checks.                                           *)
(***************************************************************************)
ModNames == <<"a", "m", "n", "p", "q">>

\* the fully-qualified module paths a, a::m, a::m::n, ... and the empty path
ModulePaths == {Path_from(SubSeq(ModNames, 1, k)) : k \in 0..MaxModDepth}

PrefixSegs == {UName("self"), UName("super"), UName("crate"), UName("m"),
               UName("b"), UGlob, URename("S", "T"), UEmpty}

LastSegs == {UName("S"), URename("S", "T"), UGlob, UEmpty}

RECURSIVE SeqsUpTo(_, _)
SeqsUpTo(S, n) ==
    IF n = 0 THEN {<<>>}
    ELSE LET shorter == SeqsUpTo(S, n - 1) IN
         shorter \cup {Append(s, x) : s \in shorter, x \in S}

DelocalizeInputs ==
    {UsePath_new(Append(p, l), "Public") : p \in SeqsUpTo(PrefixSegs, MaxPrefixLen),
                                           l \in LastSegs}

Kinds == {"Struct", "Enum", "Const", "TypeAlias", "Module"}

\* PathNode::new
PathNode_new(name) == [name |-> name, child_mods |-> <<>>, child_structs |-> <<>>]

NoItems == [k \in Kinds |-> <<>>]

\* the trees before the first insertion: StructTree::new before its loop
NoTrees == [k \in Kinds |-> PathNode_new("<root>")]

\* no dependency graph is built outside the ordering of the packages
NoDepGraph ==
    /\ dep_graph = <<>>
    /\ dag = <<>>
    /\ pkg_order = <<>>

\* no file is read and nothing is printed outside an indexing run
NoDiscovery ==
    /\ fs = <<>>
    /\ pkgs = <<>>
    /\ seed = <<>>
    /\ sub_mods = <<>>
    /\ parsed = <<>>
    /\ generator = ""
    /\ output = <<>>
    /\ remaining = <<>>
    /\ NoDepGraph

Idle ==
    /\ changed = FALSE
    /\ result = <<>>
    /\ items = NoItems
    /\ trees = NoTrees
    /\ extern_crates = <<>>
    /\ edition = 2018
    /\ ast = <<>>
    /\ things = <<>>

(***************************************************************************)
(* SpecDelocalize: UsePath::delocalize applied to every bounded input.     *)
(***************************************************************************)
InitDelocalize ==
    /\ pc = "start"
    /\ NoDiscovery
    /\ use_path \in DelocalizeInputs
    /\ containing_mod \in ModulePaths
    /\ local_path = use_path
    /\ start_mod = <<>>
    /\ Idle

CallDelocalize ==
    /\ pc = "start"
    /\ LET r == delocalize(local_path, containing_mod) IN
       /\ pc' = IF r.panic THEN "panic" ELSE "done"
       /\ local_path' = r.use_path
       /\ start_mod' = r.ret
    /\ UNCHANGED <<use_path, containing_mod, changed, result, items, trees,
                   extern_crates, edition, ast, things>>
    /\ UNCHANGED discovery

NextDelocalize == CallDelocalize

SpecDelocalize == InitDelocalize /\ [][NextDelocalize]_vars

\* the prefix (all segments but the last) of a use-path
Prefix(up) == Front(up.path)

PlainPrefix(up) == \A i \in 1..Len(up.path) - 1 : up.path[i].t = "Name"

IsSpecial(c) == c.t = "Name" /\ c.name \in {"self", "super", "crate"}

\* index of the last `crate` in the prefix, 0 when there is none
LastCrate(up) ==
    LET P == {i \in 1..Len(up.path) - 1 : up.path[i] = UName("crate")} IN
    IF P = {} THEN 0 ELSE CHOOSE i \in P : \A j \in P : j <= i

SupersAfter(up, k) ==
    Cardinality({i \in 1..Len(up.path) - 1 : i > k /\ up.path[i] = UName("super")})

ExpectedBase(up, module) ==
    LET k == LastCrate(up)
        from == IF k > 0 THEN SubSeq(module, 1, 1) ELSE module
    IN SubSeq(from, 1, Max(0, Len(from) - SupersAfter(up, k)))

NotSpecial(c) == ~IsSpecial(c)

ExpectedPath(up) == Append(SelectSeq(Prefix(up), NotSpecial), Last(up.path))

\* C2: for a non-empty use-path with a plain-name prefix and a non-empty module,
\* delocalize returns the base obtained by scanning the prefix from the module
\* (self: unchanged, super: drop the last segment, crate: reset to the first
\* segment of the module, other names: unchanged) and rewrites the use-path to
\* the non-special prefix names in order followed by the original last segment.
C2_Delocalize ==
    (pc # "start" /\ PlainPrefix(use_path) /\ containing_mod # <<>>)
        => /\ pc = "done"
           /\ start_mod = ExpectedBase(use_path, containing_mod)
           /\ local_path.path = ExpectedPath(use_path)
           /\ local_path.vis = use_path.vis

C2_Witness ==
    /\ pc = "done"
    /\ Len(containing_mod) = 3
    /\ use_path.path = <<UName("crate"), UName("super"), UName("S")>>
    /\ start_mod = <<>>
    /\ local_path.path = <<UName("S")>>

(***************************************************************************)
(* tree.rs: PathNode and StructTree.  A tree of this shape is built for    *)
(* every item kind (explore.rs:283-287).                                   *)
(***************************************************************************)
\* a fixed enumeration of the names of the model, used to list HashMap entries
NameOrder == <<"S", "T", "a", "b", "k", "m", "n", "p", "q">>

InOrder(keys) == SelectSeq(NameOrder, LAMBDA k : k \in keys)

\* HashMap::insert
HashMap_insert(map, k, v) == (k :> v) @@ map

\* node_add_struct
RECURSIVE node_add_struct(_, _, _)
node_add_struct(node, comps, st) ==
    IF comps = <<>>
    THEN [node EXCEPT !.child_structs = HashMap_insert(@, st.name, st)]
    ELSE LET with_child ==
                 IF comps[1] \in DOMAIN node.child_mods
                 THEN node
                 ELSE [node EXCEPT !.child_mods =
                           HashMap_insert(@, comps[1], PathNode_new(comps[1]))]
         IN [with_child EXCEPT !.child_mods[comps[1]] =
                 node_add_struct(@, Tail(comps), st)]

\* StructTree::add_struct panics on a module path with a non-name component
add_struct_panics(st) == \E i \in 1..Len(st.module) : st.module[i].t # "Name"

\* StructTree::add_struct
add_struct(root, st) ==
    node_add_struct(root, [i \in 1..Len(st.module) |-> st.module[i].name], st)

\* StructTree::new: the loop over the slice
RECURSIVE StructTree_new_from(_, _)
StructTree_new_from(root, structs) ==
    IF structs = <<>> THEN root
    ELSE StructTree_new_from(add_struct(root, Head(structs)), Tail(structs))

StructTree_new(structs) == StructTree_new_from(PathNode_new("<root>"), structs)

Resolved_Struct(st) == [t |-> "Struct", item |-> st]

Resolved_Module(path) == [t |-> "Module", path |-> path]

\* resolve_name with the two tests swapped: the module is preferred to the item
resolve_name_mod_first(node, name, mod_path) ==
    IF name \in DOMAIN node.child_mods
    THEN <<Resolved_Module(push_name(mod_path, name))>>
    ELSE IF name \in DOMAIN node.child_structs
    THEN <<Resolved_Struct(node.child_structs[name])>>
    ELSE <<>>

\* resolve_name, the inner function of PathNode::resolve_use_path
resolve_name(node, name, mod_path) ==
    IF name \in DOMAIN node.child_structs
    THEN <<Resolved_Struct(node.child_structs[name])>>
    ELSE IF name \in DOMAIN node.child_mods
    THEN <<Resolved_Module(push_name(mod_path, name))>>
    ELSE <<>>

\* the Glob arm: the values of child_structs chained with the keys of child_mods
resolve_glob(node, mod_path) ==
    LET structs == InOrder(DOMAIN node.child_structs)
        mods == InOrder(DOMAIN node.child_mods)
    IN [i \in 1..Len(structs) |-> Resolved_Struct(node.child_structs[structs[i]])]
       \o [i \in 1..Len(mods) |-> Resolved_Module(push_name(mod_path, mods[i]))]

Panic == [panic |-> TRUE, items |-> <<>>]

Ok(entries) == [panic |-> FALSE, items |-> entries]

\* a missing node treated as fatal, as child_mods.get(..).unwrap() would be
missing_node_unwrap == Panic

\* `None => return Vec::new()`: a segment that names no node ends the lookup
missing_node == Ok(<<>>)

\* PathNode::resolve_use_path.  as_name().unwrap() panics on a segment that
\* is no plain name, use_path[0] on an empty slice.
RECURSIVE PathNode_resolve_use_path(_, _, _)
PathNode_resolve_use_path(node, use_path_comps, mod_path) ==
    IF Len(use_path_comps) > 1
    THEN LET first == use_path_comps[1] IN
         IF first.t # "Name" THEN Panic
         ELSE IF first.name \notin DOMAIN node.child_mods THEN missing_node
         ELSE PathNode_resolve_use_path(node.child_mods[first.name],
                                        Tail(use_path_comps),
                                        push_name(mod_path, first.name))
    ELSE IF use_path_comps = <<>> THEN Panic
    ELSE LET last == use_path_comps[1] IN
         CASE last.t = "Name"   -> Ok(resolve_name(node, last.name, mod_path))
           [] last.t = "Rename" -> Ok(resolve_name(node, last.name, mod_path))
           [] last.t = "Glob"   -> Ok(resolve_glob(node, mod_path))

\* StructTree::resolve_use_path, the walk of start_mod from node on
RECURSIVE StructTree_walk(_, _, _, _)
StructTree_walk(node, comps, up, sm) ==
    IF comps = <<>>
    THEN PathNode_resolve_use_path(node, up.path, sm)
    ELSE LET key == PathComponent_to_string(Head(comps)) IN
         IF key \notin DOMAIN node.child_mods THEN missing_node
         ELSE StructTree_walk(node.child_mods[key], Tail(comps), up, sm)

\* a lookup that skips the walk of start_mod and starts at the root
StructTree_resolve_use_path_at_root(root, up, sm) ==
    PathNode_resolve_use_path(root, up.path, sm)

\* StructTree::resolve_use_path
StructTree_resolve_use_path(root, up, sm) == StructTree_walk(root, sm, up, sm)

(***************************************************************************)
(* SpecTree: a tree is built item by item and looked up.                   *)
(***************************************************************************)
MaxItems == 2          \* number of items inserted into one tree
MaxLookupPrefix == 1   \* number of non-final segments of a looked-up use-path

Struct_new(name, vis, module) == [name |-> name, vis |-> vis, module |-> module]

\* two declarations of one name in one module differ in their visibility
TreeItems ==
    {Struct_new(n, v, Path_from(m)) : n \in {"S", "m"},
                                     v \in {"Public", "Inherited"},
                                     m \in {<<"a">>, <<"a", "m">>}}

LookupPrefixSegs == {UName("a"), UName("m"), UGlob}

LookupLastSegs == {UName("S"), UName("m"), URename("S", "T"), UGlob}

LookupInputs ==
    {UsePath_new(Append(p, l), "Public") :
         p \in SeqsUpTo(LookupPrefixSegs, MaxLookupPrefix), l \in LookupLastSegs}

InitTree ==
    /\ pc = "build"
    /\ NoDiscovery
    /\ use_path = UsePath_new(<<>>, "Public")
    /\ containing_mod = <<>>
    /\ local_path = use_path
    /\ start_mod = <<>>
    /\ Idle

\* one iteration of the loop of StructTree::new
AddStruct(st) ==
    /\ pc = "build"
    /\ Len(items["Struct"]) < MaxItems
    /\ ~add_struct_panics(st)
    /\ items' = [items EXCEPT !["Struct"] = Append(@, st)]
    /\ trees' = [trees EXCEPT !["Struct"] = add_struct(@, st)]
    /\ UNCHANGED <<pc, use_path, containing_mod, local_path, start_mod, changed,
                   result, extern_crates, edition, ast, things>>
    /\ UNCHANGED discovery

\* StructTree::resolve_use_path on the built tree
CallTreeLookup(up, sm) ==
    /\ pc = "build"
    /\ LET r == StructTree_resolve_use_path(trees["Struct"], up, sm) IN
       /\ pc' = IF r.panic THEN "panic" ELSE "done"
       /\ result' = r.items
    /\ use_path' = up
    /\ local_path' = up
    /\ start_mod' = sm
    /\ UNCHANGED <<containing_mod, changed, items, trees, extern_crates, edition,
                   ast, things>>
    /\ UNCHANGED discovery

NextTree ==
    \/ \E st \in TreeItems : AddStruct(st)
    \/ \E up \in LookupInputs, sm \in ModulePaths : CallTreeLookup(up, sm)

SpecTree == InitTree /\ [][NextTree]_vars

Inserted == items["Struct"]

IsPrefix(p, q) == Len(p) <= Len(q) /\ SubSeq(q, 1, Len(p)) = p

\* the module a lookup addresses: start_mod followed by the non-final segments
AddressedModule(up, sm) ==
    sm \o [i \in 1..Len(up.path) - 1 |-> PathComponent_Name(up.path[i].name)]

\* positions of the inserted items declared directly in module M
DeclaredIn(M) == {i \in 1..Len(Inserted) : Inserted[i].module = M}

\* positions of the inserted items named n declared directly in module M
DeclaredAs(M, n) == {i \in DeclaredIn(M) : Inserted[i].name = n}

\* names of the direct child modules of M that hold an inserted item at any depth
ChildModules(M) ==
    {Inserted[i].module[Len(M) + 1].name :
         i \in {j \in 1..Len(Inserted) : /\ IsPrefix(M, Inserted[j].module)
                                         /\ Len(Inserted[j].module) > Len(M)}}

NamedLookupDone ==
    /\ pc = "done"
    /\ PlainPrefix(use_path)
    /\ Last(use_path.path).t \in {"Name", "Rename"}

\* C3 as stated: a lookup ending in the name n (or a rename of n) returns the
\* one item named n declared directly in the addressed module when there is
\* one, and the empty list otherwise.
C3_Original ==
    NamedLookupDone =>
        LET M == AddressedModule(use_path, start_mod)
            n == Last(use_path.path).name
        IN IF DeclaredAs(M, n) # {}
           THEN /\ Len(result) = 1
                /\ result[1].t = "Struct"
                /\ \E i \in DeclaredAs(M, n) : result[1].item = Inserted[i]
           ELSE result = <<>>

\* C3 (amended): a lookup ending in the name n (or a rename of n, whatever the
\* alias) returns exactly one entry: the item named n inserted last at the
\* addressed module M when M holds one; otherwise the module path M::n when
\* some inserted item lies in M::n or below it; otherwise the list is empty.
C3_Lookup ==
    NamedLookupDone =>
        LET M == AddressedModule(use_path, start_mod)
            n == Last(use_path.path).name
            D == DeclaredAs(M, n)
        IN IF D # {}
           THEN result = <<Resolved_Struct(Inserted[CHOOSE i \in D : \A j \in D : j <= i])>>
           ELSE IF n \in ChildModules(M)
           THEN result = <<Resolved_Module(push_name(M, n))>>
           ELSE result = <<>>

C3_Witness ==
    /\ pc = "done"
    /\ use_path.path = <<UName("a"), URename("S", "T")>>
    /\ start_mod = <<>>
    /\ Len(result) = 1
    /\ result[1].t = "Struct"
    /\ result[1].item.name = "S"

C3_WitnessModule ==
    /\ pc = "done"
    /\ use_path.path = <<UName("m")>>
    /\ start_mod = Path_from(<<"a">>)
    /\ result = <<Resolved_Module(Path_from(<<"a", "m">>))>>

EntriesOf(tag) == SelectSeq(result, LAMBDA e : e.t = tag)

\* C4 as stated: a lookup ending in a glob that addresses module M returns
\* exactly the items inserted with containing module M and the direct child
\* modules of M, each once, and nothing from any other module.
C4_Glob ==
    (pc = "done" /\ PlainPrefix(use_path) /\ Last(use_path.path) = UGlob) =>
        LET M == AddressedModule(use_path, start_mod)
            structs == EntriesOf("Struct")
            mods == EntriesOf("Module")
        IN /\ Len(structs) = Cardinality(DeclaredIn(M))
           /\ {structs[i].item : i \in 1..Len(structs)}
                  = {Inserted[i] : i \in DeclaredIn(M)}
           /\ Len(mods) = Cardinality(ChildModules(M))
           /\ {mods[i].path : i \in 1..Len(mods)}
                  = {push_name(M, c) : c \in ChildModules(M)}

PermsOf(n) ==
    {f \in [1..n -> 1..n] : \A i, j \in 1..n : f[i] = f[j] => i = j}

\* C9 as stated: building the tree from any permutation of the inserted items
\* yields the same tree.
C9_Commutative ==
    pc = "build" =>
        \A f \in PermsOf(Len(Inserted)) :
            StructTree_new([i \in 1..Len(Inserted) |-> Inserted[f[i]]]) = trees["Struct"]

\* the tree built by the steps is the tree StructTree::new returns
TreeIsBuilt == pc = "build" => trees["Struct"] = StructTree_new(Inserted)

(***************************************************************************)
(* use_path.rs and explore.rs: extern-crate renames.                       *)
(***************************************************************************)
\* UsePath::begins_with
begins_with(up, s) ==
    /\ up.path # <<>>
    /\ up.path[1].t = "Name"
    /\ up.path[1].name = s

\* UsePath::replace_first: only a first segment that is a plain name is replaced
replace_first(up, new_first) ==
    IF up.path # <<>> /\ up.path[1].t = "Name"
    THEN [up EXCEPT !.path[1] = UName(new_first)]
    ELSE up

\* UsePath::begins_with_empty
begins_with_empty(up) == up.path # <<>> /\ up.path[1] = UEmpty

\* UsePath::remove_first (Vec::remove(0) panics on an empty vector)
remove_first(up) == [up EXCEPT !.path = Tail(@)]

\* Path::first_as_path (first().unwrap() panics on an empty path)
first_as_path(path) == <<path[1]>>

None == <<>>

Some(x) == <<x>>

\* item/extern_crate.rs: ExternCrate
ExternCrate_new(name, rename, module, vis) ==
    [name |-> name, rename |-> rename, module |-> module, vis |-> vis]

\* extern_crate_rename, the loop over the declarations of the scope
RECURSIVE extern_crate_rename_loop(_, _, _)
extern_crate_rename_loop(up, decls, chg) ==
    IF decls = <<>> THEN [use_path |-> up, changed |-> chg]
    ELSE LET extern_crate == Head(decls) IN
         IF extern_crate.rename # None /\ begins_with(up, extern_crate.rename[1])
         THEN extern_crate_rename_loop(replace_first(up, extern_crate.name),
                                       Tail(decls), TRUE)
         ELSE extern_crate_rename_loop(up, Tail(decls), chg)

\* extern_crate_rename
extern_crate_rename(up, module, table) ==
    IF module \in DOMAIN table
    THEN extern_crate_rename_loop(up, table[module], FALSE)
    ELSE [use_path |-> up, changed |-> FALSE]

(***************************************************************************)
(* SpecRename: extern_crate_rename applied to every bounded input.         *)
(***************************************************************************)
MaxExternCrates == 2   \* number of extern-crate declarations of one scope

RenameDecls(scope) ==
    {ExternCrate_new(n, r, scope, "Inherited") :
         n \in {"r", "s"}, r \in {None, Some("a"), Some("r")}}

RenameScopes == {Path_from(<<"a">>), Path_from(<<"a", "m">>)}

RenameInputs ==
    {UsePath_new(<<f>> \o rest, vis) :
         f \in {UName("a"), UName("r"), UName("b"), UGlob, URename("a", "r"), UEmpty},
         rest \in {<<>>, <<UName("S")>>, <<UName("m"), UGlob>>},
         vis \in {"Public", "Inherited"}}
    \cup {UsePath_new(<<>>, "Public")}

InitRename ==
    /\ pc = "start"
    /\ NoDiscovery
    /\ use_path \in RenameInputs
    /\ containing_mod \in RenameScopes
    /\ local_path = use_path
    /\ start_mod = <<>>
    /\ changed = FALSE
    /\ result = <<>>
    /\ items = NoItems
    /\ trees = NoTrees
    /\ \E scope \in RenameScopes :
           \E decls \in SeqsUpTo(RenameDecls(scope), MaxExternCrates) :
               extern_crates = IF decls = <<>> THEN <<>> ELSE (scope :> decls)
    /\ edition = 2018
    /\ ast = <<>>
    /\ things = <<>>

CallExternCrateRename ==
    /\ pc = "start"
    /\ LET r == extern_crate_rename(local_path, containing_mod, extern_crates) IN
       /\ local_path' = r.use_path
       /\ changed' = r.changed
    /\ pc' = "done"
    /\ UNCHANGED <<use_path, containing_mod, start_mod, result, items, trees,
                   extern_crates, edition, ast, things>>
    /\ UNCHANGED discovery

\* UsePath::replace_first(new_first); the function has no failing path
CallReplaceFirst(new_first) ==
    /\ pc = "start"
    /\ local_path' = replace_first(local_path, new_first)
    /\ pc' = "replaced"
    /\ UNCHANGED <<use_path, containing_mod, start_mod, changed, result, items, trees,
                   extern_crates, edition, ast, things>>
    /\ UNCHANGED discovery

NextRename ==
    \/ CallExternCrateRename
    \/ \E new_first \in {"r", "s"} : CallReplaceFirst(new_first)

SpecRename == InitRename /\ [][NextRename]_vars

\* the declarations of the scope the call was made for
ScopeDecls ==
    IF containing_mod \in DOMAIN extern_crates
    THEN {extern_crates[containing_mod][i] :
              i \in 1..Len(extern_crates[containing_mod])}
    ELSE {}

\* no two declarations of the scope bind the same alias
AliasesDistinct ==
    containing_mod \in DOMAIN extern_crates =>
        LET decls == extern_crates[containing_mod] IN
        \A i, j \in 1..Len(decls) :
            (decls[i].rename # None /\ decls[i].rename = decls[j].rename) => i = j

\* C6 as stated (for scopes whose aliases are pairwise distinct): in a scope
\* that declares `extern crate r as a`, a use-path whose first segment is the
\* name a has its first segment replaced by r, the other segments unchanged,
\* and the call reports a change; a use-path whose first segment is no alias of
\* the scope is unchanged and no change is reported.
C6_Rename ==
    (pc = "done" /\ AliasesDistinct) =>
        /\ \A d \in ScopeDecls :
               (d.rename # None /\ begins_with(use_path, d.rename[1])) =>
                   /\ local_path.path[1] = UName(d.name)
                   /\ Tail(local_path.path) = Tail(use_path.path)
                   /\ changed = TRUE
        /\ (\A d \in ScopeDecls :
                d.rename = None \/ ~begins_with(use_path, d.rename[1])) =>
               /\ local_path = use_path
               /\ changed = FALSE

(***************************************************************************)
(* explore.rs: UsePathResolver.                                            *)
(***************************************************************************)
Edition2015 == 2015

Edition2018 == 2018

Edition2021 == 2021

\* item/module.rs: Module; TreeItem::module() of a module record is its parent
Module_new(path) ==
    [name |-> PathComponent_to_string(Last(path)), module |-> Front(path), path |-> path]

\* the order in which resolve_internal consults the trees
KindOrder == <<"Struct", "Enum", "Const", "TypeAlias", "Module">>

\* explore.rs: ResolvedUsePath, the entry of a tree tagged with the kind of the tree
ResolvedUsePath(kind, entry) == [kind |-> kind, entry |-> entry]

\* UsePathResolver::resolve_internal from the k-th tree on
RECURSIVE resolve_internal_from(_, _, _)
resolve_internal_from(k, up, sm) ==
    IF k > Len(KindOrder) THEN Ok(<<>>)
    ELSE LET kind == KindOrder[k]
             found == StructTree_resolve_use_path(trees[kind], up, sm)
             rest == resolve_internal_from(k + 1, up, sm)
         IN IF found.panic \/ rest.panic THEN Panic
            ELSE Ok([i \in 1..Len(found.items) |-> ResolvedUsePath(kind, found.items[i])]
                    \o rest.items)

\* UsePathResolver::resolve_internal
resolve_internal(up, sm) == resolve_internal_from(1, up, sm)

\* the test of explore.rs:374 with its outcome fixed: the local result is never returned
local_hit_never(found) == FALSE

\* the test `!items.is_empty()` of UsePathResolver::resolve
local_hit(found) == found # <<>>

ResolvePanic(up, sm) == [panic |-> TRUE, items |-> <<>>, use_path |-> up, start_mod |-> sm]

ResolveOk(found, up, sm) ==
    [panic |-> FALSE, items |-> found, use_path |-> up, start_mod |-> sm]

\* the else branch with an empty Vec returned in place of todo!()
todo_2015_empty(up) == ResolveOk(<<>>, up, <<>>)

\* UsePathResolver::resolve, the else branch: todo!("Handle 2015 edition ..")
todo_2015(up) == ResolvePanic(up, <<>>)

\* the global lookup with the scope of the containing module consulted first
resolve_global_module_first(up, cm) ==
    LET first == extern_crate_rename(up, cm, extern_crates)
        renamed == IF ~first.changed
                   THEN extern_crate_rename(first.use_path, first_as_path(cm),
                                            extern_crates).use_path
                   ELSE first.use_path
        found == resolve_internal(renamed, <<>>)
    IN IF found.panic THEN ResolvePanic(renamed, <<>>)
       ELSE ResolveOk(found.items, renamed, <<>>)

\* UsePathResolver::resolve, the global lookup of explore.rs:377-387
resolve_global(up, cm) ==
    LET first == extern_crate_rename(up, first_as_path(cm), extern_crates)
        renamed == IF ~first.changed
                   THEN extern_crate_rename(first.use_path, cm, extern_crates).use_path
                   ELSE first.use_path
        found == resolve_internal(renamed, <<>>)
    IN IF found.panic THEN ResolvePanic(renamed, <<>>)
       ELSE ResolveOk(found.items, renamed, <<>>)

\* UsePathResolver::resolve; todo!() for an edition before 2018 is a panic
resolve(up, cm) ==
    IF edition >= Edition2018
    THEN IF begins_with_empty(up)
         THEN LET abs == remove_first(up)
                  found == resolve_internal(abs, <<>>)
              IN IF found.panic THEN ResolvePanic(abs, <<>>)
                 ELSE ResolveOk(found.items, abs, <<>>)
         ELSE LET d == delocalize(up, cm) IN
              IF d.panic THEN ResolvePanic(up, <<>>)
              ELSE LET found == resolve_internal(d.use_path, d.ret) IN
                   IF found.panic THEN ResolvePanic(d.use_path, d.ret)
                   ELSE IF local_hit(found.items)
                   THEN ResolveOk(found.items, d.use_path, d.ret)
                   ELSE IF cm = <<>> THEN ResolvePanic(d.use_path, d.ret)
                   ELSE resolve_global(d.use_path, cm)
    ELSE todo_2015(up)

(***************************************************************************)
(* Spec: the index (the per-kind trees, the extern-crate table and the     *)
(* use declarations found) is filled, and use-paths are resolved on it.    *)
(***************************************************************************)
MaxIndexEntries == 2    \* number of items and declarations recorded in the index
MaxResolvePrefix == 2   \* number of non-final segments of a resolved use-path

IndexItems ==
    {<<"Struct", Struct_new("S", "Public", Path_from(<<"a", "m">>))>>,
     <<"Struct", Struct_new("S", "Public", Path_from(<<"b">>))>>,
     <<"Const", Struct_new("S", "Public", Path_from(<<"a", "m">>))>>,
     <<"Module", Module_new(Path_from(<<"a", "m">>))>>,
     <<"Module", Module_new(Path_from(<<"b">>))>>}

IndexExternCrates ==
    {ExternCrate_new("b", Some("k"), Path_from(<<"a">>), "Inherited"),
     ExternCrate_new("b", Some("m"), Path_from(<<"a">>), "Inherited"),
     ExternCrate_new("b", Some("k"), Path_from(<<"a", "m">>), "Inherited")}

\* `pub use self::S as T;` in module a::m
IndexUseDecls ==
    {<<Path_from(<<"a", "m">>), UsePath_new(<<UName("self"), URename("S", "T")>>, "Public")>>}

ResolveFirstSegs == {UName("self"), UName("super"), UName("crate"), UName("m"),
                     UName("k"), UName("b")}

ResolveLastSegs == {UName("S"), UName("T"), URename("S", "T"), UGlob, UName("b")}

\* prefixes: one first segment followed by child-module names
ResolvePrefixes ==
    {<<>>} \cup {<<f>> \o [i \in 1..n |-> UName("m")] :
                     f \in ResolveFirstSegs, n \in 0..(MaxResolvePrefix - 1)}

\* relative use-paths, and absolute ones (a leading empty segment)
ResolveInputs ==
    {UsePath_new(Append(p, l), "Public") : p \in ResolvePrefixes, l \in ResolveLastSegs}
    \cup {UsePath_new(<<UEmpty>> \o p \o <<l>>, "Public") :
              p \in {<<>>, <<UName("a")>>, <<UName("b")>>, <<UGlob>>},
              l \in ResolveLastSegs}

ContainingModules == ModulePaths \ {<<>>}

RECURSIVE SumLen(_)
SumLen(map) ==
    IF DOMAIN map = {} THEN 0
    ELSE LET k == CHOOSE x \in DOMAIN map : TRUE IN
         Len(map[k]) + SumLen([y \in DOMAIN map \ {k} |-> map[y]])

\* the number of entries recorded so far
IndexSize == SumLen(items) + SumLen(extern_crates) + SumLen(things)

Init ==
    /\ pc = "build"
    /\ NoDiscovery
    /\ use_path = UsePath_new(<<>>, "Public")
    /\ containing_mod = <<>>
    /\ local_path = use_path
    /\ start_mod = <<>>
    /\ changed = FALSE
    /\ result = <<>>
    /\ items = NoItems
    /\ trees = NoTrees
    /\ extern_crates = <<>>
    /\ edition \in {Edition2015, Edition2018, Edition2021}
    /\ ast = <<>>
    /\ things = <<>>

\* ItemTree::new, one iteration, for the tree of one kind (explore.rs:283-287)
AddItem(kind, it) ==
    /\ pc = "build"
    /\ IndexSize < MaxIndexEntries
    /\ ~add_struct_panics(it)
    /\ items' = [items EXCEPT ![kind] = Append(@, it)]
    /\ trees' = [trees EXCEPT ![kind] = add_struct(@, it)]
    /\ UNCHANGED <<pc, use_path, containing_mod, local_path, start_mod, changed,
                   result, extern_crates, edition, ast, things>>
    /\ UNCHANGED discovery

\* one extern-crate declaration recorded under its module (explore.rs:281)
AddExternCrate(decl) ==
    /\ pc = "build"
    /\ IndexSize < MaxIndexEntries
    /\ extern_crates' =
           IF decl.module \in DOMAIN extern_crates
           THEN [extern_crates EXCEPT ![decl.module] = Append(@, decl)]
           ELSE HashMap_insert(extern_crates, decl.module, <<decl>>)
    /\ UNCHANGED <<pc, use_path, containing_mod, local_path, start_mod, changed,
                   result, items, trees, edition, ast, things>>
    /\ UNCHANGED discovery

\* one use declaration recorded under its module (explore.rs:313)
AddUseDecl(module, up) ==
    /\ pc = "build"
    /\ IndexSize < MaxIndexEntries
    /\ things' = IF module \in DOMAIN things
                 THEN [things EXCEPT ![module] = Append(@, up)]
                 ELSE HashMap_insert(things, module, <<up>>)
    /\ UNCHANGED <<pc, use_path, containing_mod, local_path, start_mod, changed,
                   result, items, trees, extern_crates, edition, ast>>
    /\ UNCHANGED discovery

\* UsePathResolver::resolve
Resolve(up, cm) ==
    /\ pc = "build"
    /\ LET r == resolve(up, cm) IN
       /\ pc' = IF r.panic THEN "panic" ELSE "done"
       /\ result' = r.items
       /\ local_path' = r.use_path
       /\ start_mod' = r.start_mod
    /\ use_path' = up
    /\ containing_mod' = cm
    /\ UNCHANGED <<changed, items, trees, extern_crates, edition, ast, things>>
    /\ UNCHANGED discovery

Next ==
    \/ \E x \in IndexItems : AddItem(x[1], x[2])
    \/ \E decl \in IndexExternCrates : AddExternCrate(decl)
    \/ \E u \in IndexUseDecls : AddUseDecl(u[1], u[2])
    \/ \E up \in ResolveInputs, cm \in ContainingModules : Resolve(up, cm)

Spec == Init /\ [][Next]_vars

Resolved2018 == pc = "done" /\ edition >= Edition2018

\* the lookup against base sm across every per-kind tree
LookupAll(up, sm) == resolve_internal(up, sm).items

\* the use-path after extern-crate renaming: the crate-root scope of the
\* containing module first, the containing module itself if that changed nothing
Renamed(up, cm) ==
    LET root == extern_crate_rename(up, <<cm[1]>>, extern_crates) IN
    IF root.changed THEN root.use_path
    ELSE extern_crate_rename(up, cm, extern_crates).use_path

\* C1: under 2018+ rules a use-path that does not begin with the empty segment
\* is normalized against the containing module, giving base B, and looked up
\* against B in every per-kind tree; a non-empty lookup is the result; only when
\* it is empty the result is the lookup, against the empty base, of the
\* normalized path after extern-crate renaming.
C1_Resolve ==
    (Resolved2018 /\ ~begins_with_empty(use_path)) =>
        LET d == delocalize(use_path, containing_mod)
            Local == LookupAll(d.use_path, d.ret)
        IN IF Local # <<>>
           THEN /\ result = Local
                /\ start_mod = d.ret
                /\ local_path = d.use_path
           ELSE /\ result = LookupAll(Renamed(d.use_path, containing_mod), <<>>)
                /\ start_mod = <<>>

\* a local hit on a::m::S although `extern crate b as m` of the crate root
\* applies to the first segment
C1_WitnessLocal ==
    /\ Resolved2018
    /\ use_path.path = <<UName("m"), UName("S")>>
    /\ containing_mod = Path_from(<<"a">>)
    /\ Renamed(use_path, containing_mod).path = <<UName("b"), UName("S")>>
    /\ Len(result) = 1
    /\ result[1].entry.item.module = Path_from(<<"a", "m">>)

\* a local miss followed by a root hit after the rename k -> b
C1_Witness ==
    /\ Resolved2018
    /\ use_path.path = <<UName("k"), UName("S")>>
    /\ containing_mod = Path_from(<<"a">>)
    /\ local_path.path = <<UName("b"), UName("S")>>
    /\ Len(result) = 1
    /\ result[1].kind = "Struct"
    /\ result[1].entry.item.module = Path_from(<<"b">>)

WellFormedQuery ==
    /\ use_path.path # <<>>
    /\ PlainPrefix(use_path)
    /\ Last(use_path.path).t \in {"Name", "Rename", "Glob"}
    /\ containing_mod # <<>>

\* C5: for a non-empty use-path whose non-final segments are plain identifiers
\* and a non-empty containing module, resolution under 2018+ rules returns a
\* list and does not abort; when neither the local lookup nor the root lookup
\* after renaming finds anything the list is empty.
C5_NoAbort ==
    (pc # "build" /\ edition >= Edition2018 /\ WellFormedQuery) =>
        /\ pc = "done"
        /\ LET d == delocalize(use_path, containing_mod) IN
           (/\ LookupAll(d.use_path, d.ret) = <<>>
            /\ LookupAll(Renamed(d.use_path, containing_mod), <<>>) = <<>>)
               => result = <<>>

\* a miss on a start module that names no tree node: a::m in an index holding
\* only items of crate b
C5_Witness ==
    /\ Resolved2018
    /\ WellFormedQuery
    /\ containing_mod = Path_from(<<"a", "m">>)
    /\ use_path.path = <<UName("self"), UName("m"), UName("S")>>
    /\ IndexSize > 0
    /\ DOMAIN trees["Struct"].child_mods = {"b"}
    /\ result = <<>>

DeclaresUse(module, up) ==
    /\ module \in DOMAIN things
    /\ \E i \in 1..Len(things[module]) : things[module][i] = up

\* C7 as stated, on the scenario of the specification: module a::m holds struct
\* S and `pub use self::S as T`; resolving crate::m::T from a::m returns the one
\* struct S of a::m.
C7_ReExport ==
    (/\ Resolved2018
     /\ DeclaresUse(Path_from(<<"a", "m">>),
                    UsePath_new(<<UName("self"), URename("S", "T")>>, "Public"))
     /\ \E i \in 1..Len(items["Struct"]) :
            items["Struct"][i] = Struct_new("S", "Public", Path_from(<<"a", "m">>))
     /\ use_path.path = <<UName("crate"), UName("m"), UName("T")>>
     /\ containing_mod = Path_from(<<"a", "m">>))
        => /\ Len(result) = 1
           /\ result[1].kind = "Struct"
           /\ result[1].entry = Resolved_Struct(
                  Struct_new("S", "Public", Path_from(<<"a", "m">>)))

\* every entry of res is an item declared directly in module M or a direct
\* sub-module of M
EntriesDirectlyIn(res, M) ==
    \A i \in 1..Len(res) :
        IF res[i].entry.t = "Struct"
        THEN res[i].entry.item.module = M
        ELSE Front(res[i].entry.path) = M

SingleSegment == Len(use_path.path) = 1

\* C8 as stated: a single-segment use-path resolved from module M under 2018+
\* rules returns only items declared directly in M and direct sub-modules of M.
C8_Original ==
    (Resolved2018 /\ SingleSegment) => EntriesDirectlyIn(result, containing_mod)

\* C8 (amended): a single-segment use-path resolved from module M returns the
\* lookup at M, holding only items declared directly in M and direct
\* sub-modules of M, whenever that lookup finds anything; when it finds
\* nothing the result holds only entries declared at the root (crate roots).
C8_SingleSegment ==
    (Resolved2018 /\ SingleSegment) =>
        LET Local == LookupAll(use_path, containing_mod) IN
        IF Local # <<>>
        THEN result = Local /\ EntriesDirectlyIn(result, containing_mod)
        ELSE /\ result = LookupAll(Renamed(use_path, containing_mod), <<>>)
             /\ EntriesDirectlyIn(result, <<>>)

C8_Witness ==
    /\ Resolved2018
    /\ use_path.path = <<UName("b")>>
    /\ containing_mod = Path_from(<<"a">>)
    /\ result # <<>>
    /\ EntriesDirectlyIn(result, <<>>)

C8_WitnessLocal ==
    /\ Resolved2018
    /\ use_path.path = <<UGlob>>
    /\ containing_mod = Path_from(<<"a", "m">>)
    /\ Len(result) = 2

(***************************************************************************)
(* item.rs, item/consts.rs, item/types.rs, use_path.rs: the extractors.    *)
(* A syn item list is a sequence of items; an inline module carries its    *)
(* body as content = Some(items), a `mod x;` declaration has content None. *)
(***************************************************************************)
Item_Const(ident, vis) == [t |-> "Const", ident |-> ident, vis |-> vis]

Item_Type(ident, vis) == [t |-> "Type", ident |-> ident, vis |-> vis]

Item_Use(tree, vis) == [t |-> "Use", tree |-> tree, vis |-> vis]

Item_Mod(ident, content) == [t |-> "Mod", ident |-> ident, content |-> content]

\* `extern crate ident;` or `extern crate ident as rename;`
Item_ExternCrate(ident, rename, vis) ==
    [t |-> "ExternCrate", ident |-> ident, rename |-> rename, vis |-> vis]

UseTree_Path(ident, tree) == [t |-> "Path", ident |-> ident, tree |-> tree]

UseTree_Name(ident) == [t |-> "Name", ident |-> ident]

UseTree_Rename(ident, rename) == [t |-> "Rename", ident |-> ident, rename |-> rename]

UseTree_Glob == [t |-> "Glob"]

UseTree_Group(trees_) == [t |-> "Group", items |-> trees_]

\* Const::from_syn
Const_from_syn(item, module) ==
    [name |-> item.ident, vis |-> item.vis, module |-> module]

\* TypeAlias::from_syn
TypeAlias_from_syn(item, module) ==
    [name |-> item.ident, vis |-> item.vis, module |-> module]

name_to_component(s) == IF s = "" THEN UEmpty ELSE UName(s)

\* Iterator::flatten over a sequence of sequences
RECURSIVE Flatten(_)
Flatten(ss) == IF ss = <<>> THEN <<>> ELSE Head(ss) \o Flatten(Tail(ss))

RECURSIVE use_paths_from_use_tree(_, _)
use_paths_from_use_tree(tree, vis) ==
    CASE tree.t = "Path" ->
            LET first == name_to_component(tree.ident)
                rest == use_paths_from_use_tree(tree.tree, vis)
            IN [i \in 1..Len(rest) |-> UsePath_new(<<first>> \o rest[i].path, vis)]
      [] tree.t = "Name" -> <<UsePath_new(<<name_to_component(tree.ident)>>, vis)>>
      [] tree.t = "Rename" -> <<UsePath_new(<<URename(tree.ident, tree.rename)>>, vis)>>
      [] tree.t = "Glob" -> <<UsePath_new(<<UGlob>>, vis)>>
      [] tree.t = "Group" ->
            Flatten([i \in 1..Len(tree.items) |->
                        use_paths_from_use_tree(tree.items[i], vis)])

\* HashMap::extend, and the loop of insert of use_paths_from_items: every key
\* of new_things is inserted, replacing the value of a key that is present
HashMap_extend(map, new_things) == new_things @@ map

\* $type::from_syn of the instantiations of from_items!
from_syn(kind, item, module) ==
    CASE kind = "Const" -> Const_from_syn(item, module)
      [] kind = "Type"  -> TypeAlias_from_syn(item, module)
      [] kind = "ExternCrate" -> ExternCrate_new(item.ident, item.rename, module, item.vis)

\* the body of from_items!: the loop over items, `things` being the map so far
RECURSIVE from_items_loop(_, _, _, _)
from_items_loop(kind, list, module, map) ==
    IF list = <<>> THEN map
    ELSE LET item == Head(list) IN
         CASE item.t = kind ->
                LET s == from_syn(kind, item, module) IN
                from_items_loop(kind, Tail(list), module,
                    IF module \in DOMAIN map
                    THEN [map EXCEPT ![module] = Append(@, s)]
                    ELSE HashMap_insert(map, module, <<s>>))
           [] item.t = "Mod" ->
                LET inner == push_name(module, item.ident)
                    merged == IF item.content # None
                              THEN HashMap_extend(map,
                                       from_items_loop(kind, item.content[1], inner, <<>>))
                              ELSE map
                IN from_items_loop(kind, Tail(list), Path_pop(inner), merged)
           [] OTHER -> from_items_loop(kind, Tail(list), module, map)

\* from_items!(type_aliases_from_items, TypeAlias, Type)
type_aliases_from_items(list, module) == from_items_loop("Type", list, module, <<>>)

\* consts_from_items, the same loop written out for Const
consts_from_items(list, module) == from_items_loop("Const", list, module, <<>>)

\* extern_crates_from_items, the same loop written out for ExternCrate
extern_crates_from_items(list, module) ==
    from_items_loop("ExternCrate", list, module, <<>>)

\* use_paths_from_items: the loop over items
RECURSIVE use_paths_from_items_loop(_, _, _)
use_paths_from_items_loop(list, module, paths_map) ==
    IF list = <<>> THEN paths_map
    ELSE LET item == Head(list) IN
         CASE item.t = "Use" ->
                LET new_paths == use_paths_from_use_tree(item.tree, item.vis) IN
                use_paths_from_items_loop(Tail(list), module,
                    IF module \in DOMAIN paths_map
                    THEN [paths_map EXCEPT ![module] = @ \o new_paths]
                    ELSE HashMap_insert(paths_map, module, new_paths))
           [] item.t = "Mod" ->
                IF item.content # None
                THEN LET inner == push_name(module, item.ident)
                         new_paths == use_paths_from_items_loop(item.content[1], inner, <<>>)
                     IN use_paths_from_items_loop(Tail(list), Path_pop(inner),
                                                  HashMap_extend(paths_map, new_paths))
                ELSE use_paths_from_items_loop(Tail(list), module, paths_map)
           [] OTHER -> use_paths_from_items_loop(Tail(list), module, paths_map)

use_paths_from_items(list, module) == use_paths_from_items_loop(list, module, <<>>)

\* item/module.rs: the record modules_from_items builds for the module at path
Module_record(path, parent, name) == [name |-> name, module |-> parent, path |-> path]

\* Path::parent
Path_parent(path) == SubSeq(path, 1, Len(path) - 1)

\* push onto the list stored under key, or insert a list of one
HashMap_push(map, key, v) ==
    IF key \in DOMAIN map
    THEN [map EXCEPT ![key] = Append(@, v)]
    ELSE HashMap_insert(map, key, <<v>>)

\* modules_from_items: the loop over items
RECURSIVE modules_from_items_loop(_, _, _), modules_from_items(_, _)
modules_from_items_loop(list, module, modules) ==
    IF list = <<>> THEN modules
    ELSE LET item == Head(list) IN
         IF item.t = "Mod" /\ item.content # None
         THEN LET parent == module
                  inner == push_name(module, item.ident)
                  new_module == Module_record(inner, parent, item.ident)
                  pushed == HashMap_push(modules, parent, new_module)
                  new_modules == modules_from_items(item.content[1], inner)
              IN modules_from_items_loop(Tail(list), Path_pop(inner),
                                         HashMap_extend(pushed, new_modules))
         ELSE modules_from_items_loop(Tail(list), module, modules)

\* modules_from_items, for a non-empty module path (last().unwrap() and
\* Path::parent panic on the empty path)
modules_from_items(list, module) ==
    LET current_module == Module_record(module, Path_parent(module),
                                        PathComponent_to_string(Last(module)))
    IN modules_from_items_loop(list, module,
           HashMap_insert(<<>>, current_module.module, <<current_module>>))

(***************************************************************************)
(* SpecExtract: each extractor applied to every item list of at most       *)
(* MaxAstNodes items, inline modules and their bodies counted.             *)
(***************************************************************************)
MaxAstNodes == 4

\* `pub use self::{S, m::*};`
UseDecl == Item_Use(UseTree_Path("self",
               UseTree_Group(<<UseTree_Name("S"),
                               UseTree_Path("m", UseTree_Glob)>>)), "Public")

\* the items without a body
AstLeaves ==
    {Item_Const("A", "Public"), Item_Const("B", "Inherited"),
     Item_Type("T", "Public"), UseDecl, Item_Mod("x", None)}

AstModNames == {"x", "y"}

\* the item lists of exactly n items, and the single items of exactly k
RECURSIVE AstLists(_), AstItems(_)
AstLists(n) ==
    IF n = 0 THEN {<<>>}
    ELSE UNION {{<<it>> \o rest : it \in AstItems(k), rest \in AstLists(n - k)} :
                    k \in 1..n}

AstItems(k) ==
    {Item_Mod(x, Some(b)) : x \in AstModNames, b \in AstLists(k - 1)}
        \cup (IF k = 1 THEN AstLeaves ELSE {})

AstListsUpTo(m) == UNION {AstLists(n) : n \in 0..m}

\* list is an item list of at most MaxAstNodes items: empty, or a first item
\* of k items followed by a list of at most MaxAstNodes - k
IsAstInput(list) ==
    \/ list = <<>>
    \/ \E k \in 1..MaxAstNodes :
           \E it \in AstItems(k) :
               \E rest \in AstListsUpTo(MaxAstNodes - k) : list = <<it>> \o rest

ExtractModules == {Path_from(<<"a">>)}

InitExtract ==
    /\ pc = "start"
    /\ NoDiscovery
    /\ IsAstInput(ast)
    /\ containing_mod \in ExtractModules
    /\ things = <<>>
    /\ use_path = UsePath_new(<<>>, "Public")
    /\ local_path = use_path
    /\ start_mod = <<>>
    /\ changed = FALSE
    /\ result = <<>>
    /\ items = NoItems
    /\ trees = NoTrees
    /\ extern_crates = <<>>
    /\ edition = Edition2018

CallConstsFromItems ==
    /\ pc = "start"
    /\ pc' = "consts_from_items"
    /\ things' = consts_from_items(ast, containing_mod)
    /\ UNCHANGED <<use_path, containing_mod, local_path, start_mod, changed,
                   result, items, trees, extern_crates, edition, ast>>
    /\ UNCHANGED discovery

CallTypeAliasesFromItems ==
    /\ pc = "start"
    /\ pc' = "type_aliases_from_items"
    /\ things' = type_aliases_from_items(ast, containing_mod)
    /\ UNCHANGED <<use_path, containing_mod, local_path, start_mod, changed,
                   result, items, trees, extern_crates, edition, ast>>
    /\ UNCHANGED discovery

CallUsePathsFromItems ==
    /\ pc = "start"
    /\ pc' = "use_paths_from_items"
    /\ things' = use_paths_from_items(ast, containing_mod)
    /\ UNCHANGED <<use_path, containing_mod, local_path, start_mod, changed,
                   result, items, trees, extern_crates, edition, ast>>
    /\ UNCHANGED discovery

CallModulesFromItems ==
    /\ pc = "start"
    /\ containing_mod # <<>>
    /\ pc' = "modules_from_items"
    /\ things' = modules_from_items(ast, containing_mod)
    /\ UNCHANGED <<use_path, containing_mod, local_path, start_mod, changed,
                   result, items, trees, extern_crates, edition, ast>>
    /\ UNCHANGED discovery

NextExtract ==
    \/ CallModulesFromItems
    \/ CallConstsFromItems
    \/ CallTypeAliasesFromItems
    \/ CallUsePathsFromItems

SpecExtract == InitExtract /\ [][NextExtract]_vars

\* the syn item kind an extractor collects
KindOf(extractor) ==
    CASE extractor = "consts_from_items"       -> "Const"
      [] extractor = "type_aliases_from_items" -> "Type"
      [] extractor = "use_paths_from_items"    -> "Use"

\* what one item of the kind contributes to the list of its module
Emitted(kind, item, module) ==
    CASE kind = "Const" -> <<Const_from_syn(item, module)>>
      [] kind = "Type"  -> <<TypeAlias_from_syn(item, module)>>
      [] kind = "Use"   -> use_paths_from_use_tree(item.tree, item.vis)

\* the text of the item list read top-down: every item of the kind paired with
\* the module whose body textually contains it
RECURSIVE Textual(_, _, _)
Textual(kind, list, module) ==
    IF list = <<>> THEN <<>>
    ELSE LET item == Head(list)
             here == CASE item.t = kind ->
                            LET e == Emitted(kind, item, module) IN
                            [i \in 1..Len(e) |-> [module |-> module, thing |-> e[i]]]
                       [] item.t = "Mod" /\ item.content # None ->
                            Textual(kind, item.content[1], push_name(module, item.ident))
                       [] OTHER -> <<>>
         IN here \o Textual(kind, Tail(list), module)

Count(seq, x) == Cardinality({i \in 1..Len(seq) : seq[i] = x})

Returned(module) == IF module \in DOMAIN things THEN things[module] ELSE <<>>

ExtractDone == pc \in {"consts_from_items", "type_aliases_from_items",
                       "use_paths_from_items"}

\* C10: the map an extractor returns holds under every module exactly the
\* items of the kind that the module's body (for M: the top level of the list)
\* textually contains, each as often as it is declared there: no item is lost
\* when nested results are merged, none is attributed to another module.
C10_Complete ==
    ExtractDone =>
        LET text == Textual(KindOf(pc), ast, containing_mod)
            mods == DOMAIN things \cup {text[i].module : i \in 1..Len(text)}
        IN \A module \in mods :
               /\ \A i \in 1..Len(text) :
                      text[i].module = module =>
                          Count(Returned(module), text[i].thing)
                              = Count(text, text[i])
               /\ \A j \in 1..Len(Returned(module)) :
                      Count(text, [module |-> module, thing |-> Returned(module)[j]])
                          = Count(Returned(module), Returned(module)[j])

\* two inline modules of one name, each declaring a constant
C10_Scenario ==
    /\ pc = "consts_from_items"
    /\ ast = <<Item_Mod("x", Some(<<Item_Const("A", "Public")>>)),
               Item_Mod("x", Some(<<Item_Const("B", "Inherited")>>))>>

\* the inline modules of one body, and of every body below it, differ in name
RECURSIVE DistinctSiblings(_)
DistinctSiblings(list) ==
    /\ \A i, j \in 1..Len(list) :
           (/\ i # j
            /\ list[i].t = "Mod" /\ list[i].content # None
            /\ list[j].t = "Mod" /\ list[j].content # None)
               => list[i].ident # list[j].ident
    /\ \A i \in 1..Len(list) :
           (list[i].t = "Mod" /\ list[i].content # None)
               => DistinctSiblings(list[i].content[1])

\* the extractors are complete on item lists whose sibling modules differ in name
ExtractCompleteOnDistinct == DistinctSiblings(ast) => C10_Complete

\* nested inline modules of distinct names: nothing is lost
C10_NestedDistinct ==
    /\ pc = "consts_from_items"
    /\ ast = <<Item_Mod("x", Some(<<Item_Const("A", "Public"),
                                    Item_Mod("y", Some(<<Item_Const("B", "Inherited")>>))>>))>>
    /\ C10_Complete

\* the module paths of the text: module itself, then every inline module with
\* a body, at every depth, in the order of the text
RECURSIVE InlineModules(_, _)
InlineModules(list, module) ==
    IF list = <<>> THEN <<>>
    ELSE LET item == Head(list)
             here == IF item.t = "Mod" /\ item.content # None
                     THEN LET inner == push_name(module, item.ident) IN
                          <<inner>> \o InlineModules(item.content[1], inner)
                     ELSE <<>>
         IN here \o InlineModules(Tail(list), module)

\* the number of records for the module at path, across all keys of things
RECURSIVE RecordsFor(_, _)
RecordsFor(path, keys) ==
    IF keys = {} THEN 0
    ELSE LET k == CHOOSE x \in keys : TRUE IN
         Cardinality({i \in 1..Len(things[k]) : things[k][i].path = path})
             + RecordsFor(path, keys \ {k})

\* C11: modules_from_items(items, M) returns, across all keys, exactly one
\* record for M and one for every inline module with a body at every depth
\* below M, and every record is stored under the parent of its path.
C11_Modules ==
    pc = "modules_from_items" =>
        LET text == <<containing_mod>> \o InlineModules(ast, containing_mod) IN
        /\ \A i \in 1..Len(text) :
               RecordsFor(text[i], DOMAIN things) = Count(text, text[i])
        /\ \A k \in DOMAIN things : \A i \in 1..Len(things[k]) :
               /\ things[k][i].module = k
               /\ Path_parent(things[k][i].path) = k

\* C11 on item lists whose sibling inline modules differ in name
C11_ModulesDistinct == DistinctSiblings(ast) => C11_Modules

\* two sibling inline modules of distinct names
C11_Scenario ==
    /\ pc = "modules_from_items"
    /\ ast = <<Item_Mod("x", Some(<<>>)), Item_Mod("y", Some(<<>>))>>

(***************************************************************************)
(* explore.rs: discovery of the file-backed modules.  A PathBuf is the     *)
(* sequence of its components; the value of a path attribute is relative.  *)
(* The file snapshot fs maps every existing file to what reading and       *)
(* parsing it gives: FileUnreadable (File::open or read_to_string fails),  *)
(* FileUnparsable (syn::parse_file fails) or FileItems(items).  Opening a  *)
(* path outside DOMAIN fs fails.                                           *)
(***************************************************************************)
PathBuf_pop(p) == IF p = <<>> THEN p ELSE Front(p)

PathBuf_push(p, q) == p \o q

file_name(p) == Last(p)

FileUnreadable == [t |-> "Unreadable"]

FileUnparsable == [t |-> "Unparsable"]

FileItems(list) == [t |-> "Items", items |-> list]

\* File::open followed by read_to_string
can_read(files, path) == path \in DOMAIN files /\ files[path].t # "Unreadable"

\* a body-less `mod ident;` with its attributes
Item_ModDecl(ident, attrs, vis) ==
    [t |-> "Mod", ident |-> ident, content |-> None, attrs |-> attrs, vis |-> vis]

\* #[path = "..."]; wellformed is whether the tokens parse as PathAttr
Attr_path(value, wellformed) == [name |-> "path", value |-> value, ok |-> wellformed]

\* #[cfg_attr(..)]; wellformed is whether the tokens parse as CfgAttrWithPath
Attr_cfg_attr(value, wellformed) == [name |-> "cfg_attr", value |-> value, ok |-> wellformed]

\* CfgAttrWithPath::parse on `(cond, key = "value")`: the second identifier is
\* parsed as any syn::Ident and is not compared with `path`
CfgAttrWithPath_parse(cond, key, value) == [ok |-> TRUE, path |-> value]

\* #[cfg_attr(cond, key = "value")]
Attr_cfg_attr_keyed(cond, key, value) ==
    LET cfg_attr == CfgAttrWithPath_parse(cond, key, value) IN
    [name |-> "cfg_attr", key |-> key, value |-> cfg_attr.path, ok |-> cfg_attr.ok]

\* any other attribute, e.g. #[cfg(unix)]
Attr_other == [name |-> "cfg", value |-> <<>>, ok |-> TRUE]

\* explore.rs: struct Module
Module(path, rust_path, name, cat, vis) ==
    [path |-> path, rust_path |-> rust_path, name |-> name, cat |-> cat, vis |-> vis]

\* explore.rs: struct ASTModule
ASTModule(name, path, vis) == [name |-> name, path |-> path, vis |-> vis]

\* the directory Module::submodule looks into
submodule_dir(self) ==
    LET mod_path == PathBuf_pop(self.path) IN
    IF self.cat = "Direct" THEN Append(mod_path, self.name) ELSE mod_path

\* Module::submodule with the two forms tried in the other order
submodule_mod_first(self, name, vis, files) ==
    LET rust_path == push_name(self.rust_path, name)
        direct == Append(submodule_dir(self), name \o ".rs")
        in_dir == submodule_dir(self) \o <<name, "mod.rs">>
    IN IF in_dir \in DOMAIN files
       THEN Some(Module(in_dir, rust_path, name, "Mod", vis))
       ELSE IF direct \in DOMAIN files
       THEN Some(Module(direct, rust_path, name, "Direct", vis))
       ELSE None

\* Module::submodule
submodule(self, name, vis, files) ==
    LET rust_path == push_name(self.rust_path, name)
        direct == Append(submodule_dir(self), name \o ".rs")
        in_dir == submodule_dir(self) \o <<name, "mod.rs">>
    IN IF direct \in DOMAIN files
       THEN Some(Module(direct, rust_path, name, "Direct", vis))
       ELSE IF in_dir \in DOMAIN files
       THEN Some(Module(in_dir, rust_path, name, "Mod", vis))
       ELSE None

\* Module::direct_submodules, the category inferred from the file name
category_of(name) ==
    IF name = "mod.rs" THEN "Mod"
    ELSE IF name = "lib.rs" THEN "Root"
    ELSE "Direct"

\* Module::direct_submodules: the loop, Err(InvalidCrate) on a missing file
RECURSIVE direct_submodules_loop(_, _, _, _)
direct_submodules_loop(self, empty_mods, files, acc) ==
    IF empty_mods = <<>> THEN [err |-> FALSE, mods |-> acc]
    ELSE LET ast_mod == Head(empty_mods) IN
         IF ast_mod.path # None
         THEN LET new_mod_path == push_name(self.rust_path, ast_mod.name)
                  new_path == PathBuf_push(PathBuf_pop(self.path), ast_mod.path[1])
                  cat == category_of(file_name(new_path))
              IN direct_submodules_loop(self, Tail(empty_mods), files,
                     Append(acc, Module(new_path, new_mod_path, ast_mod.name, cat,
                                        ast_mod.vis)))
         ELSE LET found == submodule(self, ast_mod.name, ast_mod.vis, files) IN
              IF found = None THEN [err |-> TRUE, mods |-> <<>>]
              ELSE direct_submodules_loop(self, Tail(empty_mods), files,
                                          Append(acc, found[1]))

direct_submodules(self, empty_mods, files) ==
    direct_submodules_loop(self, empty_mods, files, <<>>)

\* empty_modules_from_file: the loop over the attributes of one `mod X;`;
\* Err when the tokens of a path attribute do not parse
RECURSIVE mod_path_of(_)
mod_path_of(attrs) ==
    IF attrs = <<>> THEN [err |-> FALSE, path |-> None]
    ELSE LET attr == Head(attrs) IN
         IF attr.name = "path"
         THEN IF attr.ok THEN [err |-> FALSE, path |-> Some(attr.value)]
              ELSE [err |-> TRUE, path |-> None]
         ELSE IF attr.name = "cfg_attr" /\ attr.ok
         THEN [err |-> FALSE, path |-> Some(attr.value)]
         ELSE mod_path_of(Tail(attrs))

\* empty_modules_from_file: the loop over the items of the file
RECURSIVE empty_modules_loop(_, _)
empty_modules_loop(list, emp_mods) ==
    IF list = <<>> THEN [st |-> "some", mods |-> emp_mods]
    ELSE LET item == Head(list) IN
         IF item.t = "Mod" /\ item.content = None
         THEN IF item.ident = "r#try" THEN empty_modules_loop(Tail(list), emp_mods)
              ELSE LET mod_path == mod_path_of(item.attrs) IN
                   IF mod_path.err THEN [st |-> "err", mods |-> <<>>]
                   ELSE empty_modules_loop(Tail(list),
                            Append(emp_mods, ASTModule(item.ident, mod_path.path, item.vis)))
         ELSE empty_modules_loop(Tail(list), emp_mods)

\* empty_modules_from_file: Err(io), Ok(None) on a parse failure, Ok(Some(..))
empty_modules_from_file(files, path) ==
    IF ~can_read(files, path) THEN [st |-> "err", mods |-> <<>>]
    ELSE IF files[path].t = "Unparsable" THEN [st |-> "none", mods |-> <<>>]
    ELSE empty_modules_loop(files[path].items, <<>>)

(***************************************************************************)
(* SpecSubmodule: the sub-modules of one file-backed module are located,   *)
(* for every bounded list of `mod X;` declarations and set of files.       *)
(***************************************************************************)
MaxEmptyMods == 2

\* the module whose file is read: a crate root, x.rs, x/mod.rs, and a module x
\* whose file w.rs was named by a path attribute
SeedModules ==
    {Module(<<"src", "lib.rs">>, Path_from(<<"a">>), "a", "Root", "Public"),
     Module(<<"src", "x.rs">>, Path_from(<<"a", "x">>), "x", "Direct", "Public"),
     Module(<<"src", "x", "mod.rs">>, Path_from(<<"a", "x">>), "x", "Mod", "Public"),
     Module(<<"src", "w.rs">>, Path_from(<<"a", "x">>), "x", "Direct", "Inherited")}

ModDecls ==
    {Item_ModDecl("y", <<>>, "Public"),
     Item_ModDecl("z", <<Attr_other>>, "Inherited"),
     Item_ModDecl("r#try", <<>>, "Public"),
     Item_ModDecl("y", <<Attr_path(<<"w.rs">>, TRUE)>>, "Public"),
     Item_ModDecl("y", <<Attr_path(<<"sub", "mod.rs">>, TRUE)>>, "Inherited"),
     Item_ModDecl("z", <<Attr_path(<<"lib.rs">>, TRUE)>>, "Public"),
     Item_ModDecl("y", <<Attr_other, Attr_cfg_attr(<<"w.rs">>, TRUE)>>, "Public"),
     Item_ModDecl("y", <<Attr_cfg_attr(<<>>, FALSE),
                         Attr_path(<<"sub", "mod.rs">>, TRUE)>>, "Public"),
     Item_ModDecl("z", <<Attr_path(<<>>, FALSE)>>, "Public"),
     Item_ModDecl("y", <<Attr_cfg_attr_keyed("unix", "doc", <<"w.rs">>)>>, "Public")}

\* the files that may exist beside the file of the seed
SubmoduleFiles ==
    {<<"src", "y.rs">>, <<"src", "y", "mod.rs">>, <<"src", "x", "y.rs">>,
     <<"src", "x", "y", "mod.rs">>, <<"src", "z.rs">>}

InitSubmodule ==
    /\ pc = "start"
    /\ seed \in SeedModules
    /\ \E decls \in SeqsUpTo(ModDecls, MaxEmptyMods), existing \in SUBSET SubmoduleFiles :
           fs = (seed.path :> FileItems(decls)) @@ [f \in existing |-> FileItems(<<>>)]
    /\ pkgs = <<>>
    /\ sub_mods = <<>>
    /\ parsed = <<>>
    /\ generator = ""
    /\ output = <<>>
    /\ remaining = <<>>
    /\ NoDepGraph
    /\ use_path = UsePath_new(<<>>, "Public")
    /\ containing_mod = <<>>
    /\ local_path = use_path
    /\ start_mod = <<>>
    /\ Idle

\* things_from_submodules up to `module.direct_submodules(&empty_mods)?`
DiscoverSubmodules ==
    /\ pc = "start"
    /\ LET empty_mods == empty_modules_from_file(fs, seed.path)
           found == direct_submodules(seed, empty_mods.mods, fs)
       IN IF empty_mods.st = "some" /\ ~found.err
          THEN pc' = "done" /\ sub_mods' = found.mods
          ELSE pc' = "err" /\ sub_mods' = <<>>
    /\ UNCHANGED <<use_path, containing_mod, local_path, start_mod, changed, result,
                   items, trees, extern_crates, edition, ast, things>>
    /\ UNCHANGED <<fs, pkgs, seed, parsed, generator, output, remaining>>
    /\ UNCHANGED depgraph

NextSubmodule == DiscoverSubmodules

SpecSubmodule == InitSubmodule /\ [][NextSubmodule]_vars

\* the `mod X;` declarations recorded for the file of the seed
Recorded == empty_modules_from_file(fs, seed.path).mods

\* dir(F): the directory of the file of the seed
DirOfSeed == SubSeq(seed.path, 1, Len(seed.path) - 1)

\* <parent>: dir(F) for a Root or Mod seed, dir(F)/name(P) for a Direct one
ParentDir == IF seed.cat \in {"Root", "Mod"} THEN DirOfSeed
             ELSE Append(DirOfSeed, seed.name)

Exists(path) == path \in DOMAIN fs

\* C14: every recorded `mod X;` of the file F of module P gives one sub-module,
\* in the order of the text, with module path P::X; with a recorded path
\* attribute v its file is dir(F)/v, of category Mod for mod.rs, Root for lib.rs
\* and Direct otherwise; without, its file is <parent>/X.rs (Direct) when that
\* exists and else <parent>/X/mod.rs (Mod), which then exists.
C14_Location ==
    pc = "done" =>
        /\ Len(sub_mods) = Len(Recorded)
        /\ \A i \in 1..Len(Recorded) :
               LET X == Recorded[i].name
                   sub == sub_mods[i]
               IN /\ sub.rust_path = Append(seed.rust_path, PathComponent_Name(X))
                  /\ sub.name = X
                  /\ IF Recorded[i].path # None
                     THEN /\ sub.path = DirOfSeed \o Recorded[i].path[1]
                          /\ sub.cat = (CASE Last(sub.path) = "mod.rs" -> "Mod"
                                          [] Last(sub.path) = "lib.rs" -> "Root"
                                          [] OTHER -> "Direct")
                     ELSE IF Exists(Append(ParentDir, X \o ".rs"))
                     THEN sub.path = Append(ParentDir, X \o ".rs") /\ sub.cat = "Direct"
                     ELSE /\ Exists(ParentDir \o <<X, "mod.rs">>)
                          /\ sub.path = ParentDir \o <<X, "mod.rs">>
                          /\ sub.cat = "Mod"

\* `mod y;` in x.rs with both src/x/y.rs and src/x/y/mod.rs present: y.rs wins
C14_Witness ==
    /\ pc = "done"
    /\ seed.path = <<"src", "x.rs">>
    /\ Exists(<<"src", "x", "y.rs">>) /\ Exists(<<"src", "x", "y", "mod.rs">>)
    /\ Len(sub_mods) = 2
    /\ Recorded[1].path = None /\ Recorded[2].path # None
    /\ sub_mods[1].path = <<"src", "x", "y.rs">>

(***************************************************************************)
(* explore.rs: indexing of files, targets and packages.  A call returns    *)
(* st = "ok" with its map, st = "err" (Err(..)) or st = "panic"; `parsed`  *)
(* lists the files read by things_from_file, each with the module path it  *)
(* was read for and with what the call returned.                           *)
(***************************************************************************)
Extractors == {"consts_from_items", "type_aliases_from_items", "modules_from_items",
               "use_paths_from_items"}

\* gen(&ast.items, &mut module)
apply_gen(gen, list, path) ==
    CASE gen = "consts_from_items"       -> consts_from_items(list, path)
      [] gen = "type_aliases_from_items" -> type_aliases_from_items(list, path)
      [] gen = "modules_from_items"      -> modules_from_items(list, path)
      [] gen = "use_paths_from_items"    -> use_paths_from_items(list, path)
      [] gen = "extern_crates_from_items" -> extern_crates_from_items(list, path)

\* a parse failure taken for an error
parse_failure_err == "err"

\* things_from_file: `Err(err) => { warn!(..); Ok(None) }`
parse_failure == "none"

\* things_from_file: Err(io), Ok(None) on a parse failure, Ok(Some(map))
things_from_file(files, file_path, path, gen) ==
    IF ~can_read(files, file_path) THEN [st |-> "err", things |-> <<>>]
    ELSE IF files[file_path].t = "Unparsable" THEN [st |-> parse_failure, things |-> <<>>]
    ELSE [st |-> "some", things |-> apply_gen(gen, files[file_path].items, path)]

\* `if let Some(existing) = things.get_mut(&k) { existing.append(&mut v) }
\*  else { things.insert(k, v) }` for every (k, v) of new_things
append_all(map, new_things) ==
    [k \in DOMAIN map \cup DOMAIN new_things |->
        (IF k \in DOMAIN map THEN map[k] ELSE <<>>)
            \o (IF k \in DOMAIN new_things THEN new_things[k] ELSE <<>>)]

RECURSIVE append_each(_, _)
append_each(map, maps) ==
    IF maps = <<>> THEN map ELSE append_each(append_all(map, Head(maps)), Tail(maps))

Outcome(st, map, log) == [st |-> st, things |-> map, parsed |-> log]

\* one call of things_from_file, for the file of module self
Read(self, st) ==
    [rust_path |-> self.rust_path, path |-> self.path, name |-> self.name,
     cat |-> self.cat, st |-> st]

\* things_from_submodules from the two collect_into_vec on: the maps of the
\* files (from_file) and of what lies below them (below), appended and merged
collect_things(subs, from_file, below) ==
    LET n == Len(subs)
        things_ == [i \in 1..n |-> from_file[i].things]
        more_things == [i \in 1..n |->
            IF below[i].st = "ok" THEN below[i].things ELSE <<>>]
        reads == [i \in 1..n |-> Read(subs[i], from_file[i].st)]
        log == reads \o Flatten([i \in 1..n |-> below[i].parsed])
    IN IF \E i \in 1..n : from_file[i].st = "err"
       THEN Outcome("panic", <<>>, reads)
       ELSE IF \E i \in 1..n : below[i].st = "panic"
       THEN Outcome("panic", <<>>, log)
       ELSE Outcome("ok", append_each(<<>>, things_ \o more_things), log)

RECURSIVE things_from_submodules(_, _, _)
\* things_from_submodules from `module.direct_submodules(&empty_mods)?` on
things_from_sub_mods(files, found, gen) ==
    IF found.err THEN Outcome("err", <<>>, <<>>)
    ELSE collect_things(found.mods,
             [i \in 1..Len(found.mods) |->
                 things_from_file(files, found.mods[i].path, found.mods[i].rust_path, gen)],
             [i \in 1..Len(found.mods) |->
                 things_from_submodules(files, found.mods[i], gen)])

\* things_from_submodules from `match empty_modules_from_file(..)?` on
things_from_empty_mods(files, self, empty_mods, gen) ==
    IF empty_mods.st = "err" THEN Outcome("err", <<>>, <<>>)
    ELSE IF empty_mods.st = "none" THEN Outcome("ok", <<>>, <<>>)
    ELSE things_from_sub_mods(files, direct_submodules(self, empty_mods.mods, files), gen)

\* things_from_submodules
things_from_submodules(files, self, gen) ==
    things_from_empty_mods(files, self, empty_modules_from_file(files, self.path), gen)

\* explore.rs: SimpleTarget; src_path is None for TargetSourcePath::Metabuild
SimpleTarget(crate_name, kind, src_path) ==
    [crate_name |-> crate_name, kind |-> kind, src_path |-> src_path]

\* explore.rs: SimplePackage
SimplePackage(name, targets, ed) == [name |-> name, targets |-> targets, edition |-> ed]

\* the root module path taken for the keyword `crate`
root_rust_path_crate(crate_name) == Path_from(<<"crate">>)

\* things_in_target: Path::from(vec![crate_name.clone()])
root_rust_path(crate_name) == Path_from(<<crate_name>>)

\* things_in_target: root is what things_from_file returned for the root
\* file, new_things what things_from_submodules returned
merge_root(self, root, new_things) ==
    LET log == <<Read(self, root.st)>> IN
    IF root.st = "err" THEN Outcome("err", <<>>, log)
    ELSE IF new_things.st # "ok"
    THEN Outcome(new_things.st, <<>>, log \o new_things.parsed)
    ELSE Outcome("ok", append_all(root.things, new_things.things),
                 log \o new_things.parsed)

\* things_in_target for the root module self of the target
things_in_root(files, self, gen) ==
    merge_root(self, things_from_file(files, self.path, self.rust_path, gen),
               things_from_submodules(files, self, gen))

\* things_in_target
things_in_target(files, targ, gen) ==
    IF targ.src_path = None THEN Outcome("ok", <<>>, <<>>)
    ELSE things_in_root(files,
             Module(targ.src_path[1], root_rust_path(targ.crate_name),
                    targ.crate_name, "Root", "Public"), gen)

\* SimplePackage::library
RECURSIVE library(_)
library(targets) ==
    IF targets = <<>> THEN None
    ELSE IF Head(targets).kind = "Lib" THEN Some(Head(targets))
    ELSE library(Tail(targets))

\* things_in_package, the loop over every target of the package
RECURSIVE things_in_targets(_, _, _, _)
\* one iteration: `things.extend(things_in_target(targ, &gen)?)`
extend_by_target(files, targets, gen, acc, next) ==
    IF next.st # "ok" THEN Outcome(next.st, <<>>, acc.parsed \o next.parsed)
    ELSE things_in_targets(files, Tail(targets), gen,
             Outcome("ok", HashMap_extend(acc.things, next.things),
                     acc.parsed \o next.parsed))

things_in_targets(files, targets, gen, acc) ==
    IF targets = <<>> THEN acc
    ELSE extend_by_target(files, targets, gen, acc,
                          things_in_target(files, Head(targets), gen))

\* things_in_package
things_in_package(files, pkg, only_lib, gen) ==
    IF only_lib
    THEN LET lib == library(pkg.targets) IN
         IF lib = None THEN Outcome("ok", <<>>, <<>>)
         ELSE things_in_target(files, lib[1], gen)
    ELSE things_in_targets(files, pkg.targets, gen, Outcome("ok", <<>>, <<>>))

\* mapped_things_in_package_rec: the loop that extends the map of the main
\* package by the maps of the other packages, each of them unwrapped
RECURSIVE extend_by_packages(_, _, _, _)
\* one iteration: `things_in_package(p, true, gen).unwrap()`, `things.extend(thing)`
extend_by_package(files, sub_pkgs, gen, acc, thing) ==
    IF thing.st # "ok" THEN Outcome("panic", <<>>, acc.parsed \o thing.parsed)
    ELSE extend_by_packages(files, Tail(sub_pkgs), gen,
             Outcome("ok", HashMap_extend(acc.things, thing.things),
                     acc.parsed \o thing.parsed))

extend_by_packages(files, sub_pkgs, gen, acc) ==
    IF sub_pkgs = <<>> THEN acc
    ELSE extend_by_package(files, sub_pkgs, gen, acc,
                           things_in_package(files, Head(sub_pkgs), TRUE, gen))

\* mapped_things_in_package_rec from `things_in_package(pkg, true, gen)?` on
extend_main(files, sub_pkgs, gen, things_) ==
    IF things_.st # "ok" THEN things_
    ELSE extend_by_packages(files, sub_pkgs, gen, things_)

\* mapped_things_in_package_rec
mapped_things_in_package_rec(files, pkg, sub_pkgs, gen) ==
    extend_main(files, sub_pkgs, gen, things_in_package(files, pkg, TRUE, gen))

(***************************************************************************)
(* SpecDiscover: one per-kind table of the run is computed,                *)
(* mapped_things_in_package_rec, over every file snapshot and package list *)
(* of the sets below.  Path attributes occur in crate roots only, so that  *)
(* no file of a snapshot includes itself.                                  *)
(***************************************************************************)
MaxDeps == 1   \* number of packages besides the main package

LibRs == <<"src", "lib.rs">>

MainRs == <<"src", "main.rs">>

DepLibRs == <<"dep", "lib.rs">>

ConstA == Item_Const("A", "Public")

ConstB == Item_Const("B", "Inherited")

\* what each file of a snapshot may be; Absent is a file that does not exist
Absent == [t |-> "Absent"]

FileChoices ==
    [f \in {LibRs, <<"src", "x.rs">>, <<"src", "y.rs">>, <<"src", "x", "y.rs">>,
            MainRs, DepLibRs, <<"dep", "x.rs">>} |->
        CASE f = LibRs ->
                {FileItems(<<ConstA, Item_ModDecl("x", <<>>, "Public"),
                             Item_Mod("m", Some(<<ConstB>>))>>),
                 FileItems(<<Item_ModDecl("x", <<Attr_path(<<"y.rs">>, TRUE)>>, "Public"),
                             Item_ModDecl("x", <<Attr_other>>, "Public")>>),
                 FileUnparsable, FileUnreadable}
          [] f = <<"src", "x.rs">> ->
                {Absent, FileItems(<<ConstA>>),
                 FileItems(<<Item_ModDecl("y", <<>>, "Inherited"), ConstB>>),
                 FileUnparsable, FileUnreadable}
          [] f = <<"src", "y.rs">> -> {Absent, FileItems(<<ConstB>>)}
          [] f = <<"src", "x", "y.rs">> ->
                {Absent, FileItems(<<Item_Type("T", "Public")>>), FileUnparsable}
          [] f = MainRs -> {FileItems(<<ConstB>>)}
          [] f = DepLibRs ->
                {FileItems(<<ConstA, Item_ModDecl("x", <<>>, "Public")>>), FileUnparsable}
          [] f = <<"dep", "x.rs">> -> {Absent, FileItems(<<ConstB>>), FileUnreadable}]

\* a snapshot: one choice per file, the absent files left out
Existing(c) == [f \in {g \in DOMAIN c : c[g] # Absent} |-> c[f]]

IsSnapshot(files) ==
    \E c1 \in FileChoices[LibRs], c2 \in FileChoices[<<"src", "x.rs">>],
       c3 \in FileChoices[<<"src", "y.rs">>], c4 \in FileChoices[<<"src", "x", "y.rs">>],
       c5 \in FileChoices[MainRs], c6 \in FileChoices[DepLibRs],
       c7 \in FileChoices[<<"dep", "x.rs">>] :
        files = Existing((LibRs :> c1) @@ (<<"src", "x.rs">> :> c2)
                         @@ (<<"src", "y.rs">> :> c3) @@ (<<"src", "x", "y.rs">> :> c4)
                         @@ (MainRs :> c5) @@ (DepLibRs :> c6)
                         @@ (<<"dep", "x.rs">> :> c7))

\* the main package: library and binary, build script and library, binary only
MainPackages ==
    {SimplePackage("a", <<SimpleTarget("a", "Lib", Some(LibRs)),
                          SimpleTarget("a", "Bin", Some(MainRs))>>, Edition2018),
     SimplePackage("a", <<SimpleTarget("build_script_build", "CustomBuild", None),
                          SimpleTarget("a", "Lib", Some(LibRs))>>, Edition2018),
     SimplePackage("a", <<SimpleTarget("a", "Bin", Some(MainRs))>>, Edition2018)}

\* a dependency: library, binary only, build script and library
DepPackages ==
    {SimplePackage("b", <<SimpleTarget("b", "Lib", Some(DepLibRs))>>, Edition2018),
     SimplePackage("b", <<SimpleTarget("b", "Bin", Some(DepLibRs))>>, Edition2018),
     SimplePackage("b", <<SimpleTarget("build_script_build", "CustomBuild", None),
                          SimpleTarget("b", "Lib", Some(DepLibRs))>>, Edition2018)}

InitDiscover ==
    /\ pc = "start"
    /\ IsSnapshot(fs)
    /\ \E main \in MainPackages, deps \in SeqsUpTo(DepPackages, MaxDeps) :
           pkgs = <<main>> \o deps
    /\ seed = <<>>
    /\ sub_mods = <<>>
    /\ parsed = <<>>
    /\ generator = ""
    /\ output = <<>>
    /\ remaining = <<>>
    /\ NoDepGraph
    /\ use_path = UsePath_new(<<>>, "Public")
    /\ containing_mod = <<>>
    /\ local_path = use_path
    /\ start_mod = <<>>
    /\ Idle

\* std_lib_info: one `mapped_things_in_package_rec(&std_pkg, &pkgs, gen)`
IndexKind(gen) ==
    /\ pc = "start"
    /\ \E out \in {mapped_things_in_package_rec(fs, Head(pkgs), Tail(pkgs), gen)} :
       /\ pc' = (CASE out.st = "ok" -> "done" [] out.st = "err" -> "err"
                   [] out.st = "panic" -> "panic")
       /\ things' = out.things
       /\ parsed' = out.parsed
    /\ generator' = gen
    /\ UNCHANGED <<use_path, containing_mod, local_path, start_mod, changed, result,
                   items, trees, extern_crates, edition, ast>>
    /\ UNCHANGED <<fs, pkgs, seed, sub_mods, output, remaining>>
    /\ UNCHANGED depgraph

NextDiscover == \E gen \in Extractors : IndexKind(gen)

SpecDiscover == InitDiscover /\ [][NextDiscover]_vars

\* the extractors of items (a use declaration is no item)
ItemExtractors == {"consts_from_items", "type_aliases_from_items", "modules_from_items"}

\* the crate names of the library targets of the packages of the run
CrateNames ==
    {library(pkgs[i].targets)[1].crate_name :
        i \in {j \in 1..Len(pkgs) : library(pkgs[j].targets) # None}}

IndexedItems == pc # "start" /\ generator \in ItemExtractors

\* path is non-empty, of plain identifiers, and begins with the name of a crate
InCrate(path) ==
    /\ path # <<>>
    /\ \A j \in 1..Len(path) : path[j].t = "Name"
    /\ path[1].name \in CrateNames

\* C12 as stated: every extracted item has a containing-module path that is
\* non-empty, of plain identifiers only, and begins with the crate name.
C12_Original ==
    IndexedItems =>
        \A k \in DOMAIN things : \A i \in 1..Len(things[k]) :
            InCrate(things[k][i].module)

\* C12 (amended): every extracted item is stored under its containing-module
\* path; that path is non-empty, of plain identifiers only, and begins with the
\* crate name, except for the module record of a crate root, whose path is the
\* crate name alone and whose containing-module path is empty.
C12_Paths ==
    IndexedItems =>
        \A k \in DOMAIN things : \A i \in 1..Len(things[k]) :
            LET item == things[k][i] IN
            /\ item.module = k
            /\ IF generator = "modules_from_items" /\ Len(item.path) = 1
               THEN item.module = <<>> /\ InCrate(item.path)
               ELSE InCrate(item.module)

\* the module records of crate a with sub-module files x.rs and x/y.rs: the
\* root record under the empty path, the record of a::x::y under a::x
C12_Witness ==
    /\ pc = "done"
    /\ generator = "modules_from_items"
    /\ <<>> \in DOMAIN things
    /\ Path_from(<<"a", "x">>) \in DOMAIN things

\* the calls of things_from_file for the library target of the main package
\* that handed the items of a file to the extractor
HandedToExtractor ==
    {i \in 1..Len(parsed) :
        /\ parsed[i].st = "some"
        /\ parsed[i].rust_path[1] = PathComponent_Name(Head(pkgs).name)}

\* C13: during discovery of one target every module path handed to the
\* extractors is backed by exactly one file, no two file-backed modules share
\* a module path, and no file is parsed as two different module paths.
C13_OneFilePerModule ==
    pc # "start" =>
        \A i, j \in HandedToExtractor :
            i # j => /\ parsed[i].rust_path # parsed[j].rust_path
                     /\ parsed[i].path # parsed[j].path

\* `#[path = "y.rs"] mod x; #[cfg(..)] mod x;` with y.rs and x.rs present
C13_Scenario ==
    /\ pc = "done"
    /\ \E i, j \in HandedToExtractor :
           /\ parsed[i].rust_path = parsed[j].rust_path
           /\ parsed[i].path = <<"src", "y.rs">>
           /\ parsed[j].path = <<"src", "x.rs">>

\* the snapshot with an empty file in the place of every file that fails to parse
Emptied(files) ==
    [f \in DOMAIN files |->
        IF files[f].t = "Unparsable" THEN FileItems(<<>>) ELSE files[f]]

\* how the run ended, as the st of an Outcome
RunStatus == CASE pc = "done" -> "ok" [] pc = "err" -> "err" [] pc = "panic" -> "panic"

\* the module paths of the items of `things` that lie in module path or below:
\* the path of a module record, the containing module of any other item
ItemsAtOrBelow(path) ==
    {<<k, i>> \in UNION {{<<k, i>> : i \in 1..Len(things[k])} : k \in DOMAIN things} :
        IF generator = "modules_from_items"
        THEN IsPrefix(path, things[k][i].path)
        ELSE IsPrefix(path, k)}

\* C15: a file whose parse fails contributes no item of any kind and no
\* sub-module below it (its module path being read for once), and the run
\* ends as it does on the snapshot that holds an empty file in its place, with
\* the same tables of constants, type aliases and use declarations; so a parse
\* failure, of a crate root too, never aborts the run.
C15_ParseFailure ==
    pc # "start" =>
        /\ LET ref == mapped_things_in_package_rec(Emptied(fs), Head(pkgs), Tail(pkgs),
                                                   generator)
           IN /\ RunStatus = ref.st
              /\ generator # "modules_from_items" => things = ref.things
        /\ \A i \in 1..Len(parsed) :
               (/\ parsed[i].st = "none"
                /\ \A j \in 1..Len(parsed) : j # i => parsed[j].rust_path # parsed[i].rust_path)
                   => /\ ItemsAtOrBelow(parsed[i].rust_path) = {}
                      /\ \A j \in 1..Len(parsed) :
                             j # i => ~IsPrefix(parsed[i].rust_path, parsed[j].rust_path)

\* the root file of crate a fails to parse, src/x.rs exists, and the constants
\* of the dependency b are indexed
C15_Witness ==
    /\ pc = "done"
    /\ generator = "consts_from_items"
    /\ fs[LibRs] = FileUnparsable
    /\ <<"src", "x.rs">> \in DOMAIN fs
    /\ DOMAIN things = {Path_from(<<"b">>), Path_from(<<"b", "x">>)}

\* a sub-module file fails to parse beside an inline module and a constant
C15_WitnessSub ==
    /\ pc = "done"
    /\ generator = "consts_from_items"
    /\ \E i \in 1..Len(parsed) :
           parsed[i].st = "none" /\ parsed[i].path = <<"src", "x.rs">>
    /\ <<"src", "x", "y.rs">> \in DOMAIN fs
    /\ DOMAIN things = {Path_from(<<"a">>), Path_from(<<"a", "m">>)}

\* the file read by call i of things_from_file holds a `mod X;` without a path
\* attribute for which neither X.rs nor X/mod.rs exists
MissingSubmodule(i) ==
    /\ parsed[i].st = "some"
    /\ LET self == Module(parsed[i].path, parsed[i].rust_path, parsed[i].name,
                          parsed[i].cat, "Public")
           empty_mods == empty_modules_from_file(fs, parsed[i].path)
       IN empty_mods.st = "some" /\ direct_submodules(self, empty_mods.mods, fs).err

\* the crate whose file call i read
CrateOf(i) == parsed[i].rust_path[1]

\* the library root of every package but the one of crate c has been read
OtherCratesIndexed(c) ==
    \A p \in 1..Len(pkgs) :
        LET lib == library(pkgs[p].targets) IN
        (lib # None /\ PathComponent_Name(lib[1].crate_name) # c)
            => \E j \in 1..Len(parsed) : parsed[j].path = lib[1].src_path[1]

\* C16: when a `mod X;` without a path attribute has neither X.rs nor X/mod.rs,
\* at whatever depth, the crate that contains it contributes no items, every
\* other crate is still indexed and the run completes.
C16_MissingSubmodule ==
    pc # "start" =>
        \A i \in 1..Len(parsed) :
            MissingSubmodule(i) =>
                /\ pc = "done"
                /\ \A k \in DOMAIN things : k # <<>> => k[1] # CrateOf(i)
                /\ OtherCratesIndexed(CrateOf(i))

\* the missing sub-module at depth one: `mod y;` in src/x.rs
C16_ScenarioNested ==
    /\ pc = "done"
    /\ \E i \in 1..Len(parsed) : MissingSubmodule(i) /\ parsed[i].path = <<"src", "x.rs">>
    /\ things # <<>>

\* the missing sub-module in the root file of a dependency
C16_ScenarioDependency ==
    /\ pc = "panic"
    /\ \E i \in 1..Len(parsed) : MissingSubmodule(i) /\ parsed[i].path = DepLibRs

\* C17: if opening or reading a discovered module file fails, only that file is
\* dropped and the run completes.
C17_IoFailure ==
    pc # "start" =>
        ((\E i \in 1..Len(parsed) : parsed[i].st = "err" /\ Len(parsed[i].rust_path) > 1)
            => pc = "done")

\* the file named by a path attribute does not exist
C17_ScenarioPathAttr ==
    /\ pc = "panic"
    /\ \E i \in 1..Len(parsed) :
           /\ parsed[i].st = "err"
           /\ parsed[i].path = <<"src", "y.rs">>
           /\ parsed[i].path \notin DOMAIN fs

\* the root file of target targ was read as the root module of its crate
TargetRead(targ) ==
    \E i \in 1..Len(parsed) :
        /\ parsed[i].path = targ.src_path[1]
        /\ parsed[i].rust_path = Path_from(<<targ.crate_name>>)
        /\ parsed[i].cat = "Root"

TargetsOf(p) == {pkgs[p].targets[i] : i \in 1..Len(pkgs[p].targets)}

\* C18: of every dependency exactly the library target (if any) is indexed; of
\* the main crate the library target and every non-library target with a real
\* source path; a Metabuild target contributes nothing.
C18_TargetSelection ==
    pc = "done" =>
        /\ \A targ \in TargetsOf(1) : targ.src_path # None => TargetRead(targ)
        /\ \A p \in 2..Len(pkgs) : \A targ \in TargetsOf(p) :
               targ.src_path # None => (TargetRead(targ) <=> targ.kind = "Lib")
        /\ \A i \in 1..Len(parsed) :
               Len(parsed[i].rust_path) = 1 =>
                   \E p \in 1..Len(pkgs) : \E targ \in TargetsOf(p) :
                       targ.src_path = Some(parsed[i].path)

\* the main crate has a library and a binary, and the binary is never read
C18_Scenario ==
    /\ pc = "done"
    /\ Len(pkgs[1].targets) = 2
    /\ pkgs[1].targets[2].kind = "Bin"
    /\ TargetRead(pkgs[1].targets[1])
    /\ ~TargetRead(pkgs[1].targets[2])

(***************************************************************************)
(* SpecRun: std_lib_info from the per-kind tables to the printed tuples.   *)
(* The files of the snapshots hold no struct and no enum, so the tables    *)
(* and trees of these two kinds stay empty.  Where the program iterates    *)
(* over a HashMap the run takes any order of its entries.                  *)
(***************************************************************************)
\* the orders in which the elements of a finite set can be listed
Orders(S) ==
    {o \in [1..Cardinality(S) -> S] : \A i, j \in DOMAIN o : i # j => o[i] # o[j]}

\* things_in_package_rec with the items of all keys shuffled together
into_values_shuffled(map) ==
    LET keys == CHOOSE o \in Orders(DOMAIN map) : TRUE
        all == Flatten([i \in 1..Len(keys) |-> map[keys[i]]])
    IN {[i \in 1..Len(all) |-> all[p[i]]] : p \in Orders(1..Len(all))}

\* things_in_package_rec: `things.into_values().flatten().collect()`, the
\* values in any order of the keys, each value in its own order
into_values(map) ==
    {Flatten([i \in 1..Len(keys) |-> map[keys[i]]]) : keys \in Orders(DOMAIN map)}

\* `for (path, use_paths) in &std_use_paths { for use_path in use_paths`: the
\* (path, use_path) pairs in the order the two loops visit them
iter_use_paths(map) ==
    {Flatten([i \in 1..Len(keys) |->
                 [j \in 1..Len(map[keys[i]]) |-> <<keys[i], map[keys[i]][j]>>]]) :
        keys \in Orders(DOMAIN map)}

\* the orders a lookup may return its entries in: child_structs.values() and
\* child_mods.keys() of one tree come in any order, the trees in KindOrder
hash_orders(found) ==
    {s \in {[i \in 1..Len(found) |-> found[p[i]]] : p \in Orders(1..Len(found))} :
        \A i \in 1..Len(found) :
            s[i].kind = found[i].kind /\ s[i].entry.t = found[i].entry.t}

\* the kind of tree each extractor of std_lib_info feeds
TableKinds == <<"Const", "TypeAlias", "Module">>

TableExtractors == <<"consts_from_items", "type_aliases_from_items", "modules_from_items">>

\* the tables of explore.rs:276-281 for the snapshot and packages of the run
Table(gen) == mapped_things_in_package_rec(fs, Head(pkgs), Tail(pkgs), gen)

\* the files of a run: the main crate a with its module m, the dependency b
MRs == <<"src", "m.rs">>

PubConst(name) == Item_Const(name, "Public")

RunFileChoices ==
    [f \in {LibRs, MRs, MainRs, DepLibRs} |->
        CASE f = LibRs ->
                {FileItems(<<Item_Use(UseTree_Path("m", UseTree_Glob), "Public"),
                             Item_Use(UseTree_Path("m", UseTree_Name("S")), "Inherited"),
                             Item_ModDecl("m", <<>>, "Public")>>),
                 FileItems(<<Item_ExternCrate("b", Some("k"), "Inherited"),
                             Item_Use(UseTree_Path("k", UseTree_Name("S")), "Public"),
                             Item_Mod("n", Some(<<PubConst("S"), Item_Type("T", "Public"),
                                 Item_Use(UseTree_Path("self", UseTree_Glob), "Public")>>))>>),
                 FileUnparsable}
          [] f = MRs ->
                {Absent,
                 FileItems(<<PubConst("S"), PubConst("T")>>),
                 FileItems(<<PubConst("S"), Item_Const("S", "Inherited"),
                             Item_Use(UseTree_Path("self", UseTree_Name("S")), "Public")>>),
                 FileUnparsable}
          [] f = MainRs -> {FileItems(<<Item_Use(UseTree_Name("a"), "Public")>>)}
          [] f = DepLibRs ->
                {FileItems(<<PubConst("S"), Item_Use(UseTree_Name("S"), "Public")>>),
                 FileItems(<<Item_Type("T", "Public")>>),
                 FileUnparsable}]

IsRunSnapshot(files) ==
    \E c1 \in RunFileChoices[LibRs], c2 \in RunFileChoices[MRs],
       c3 \in RunFileChoices[MainRs], c4 \in RunFileChoices[DepLibRs] :
        files = Existing((LibRs :> c1) @@ (MRs :> c2) @@ (MainRs :> c3) @@ (DepLibRs :> c4))

\* the main package: a library, a library and a binary, a library of edition 2015
RunMainPackages ==
    {SimplePackage("a", <<SimpleTarget("a", "Lib", Some(LibRs))>>, Edition2018),
     SimplePackage("a", <<SimpleTarget("a", "Lib", Some(LibRs)),
                          SimpleTarget("a", "Bin", Some(MainRs))>>, Edition2021),
     SimplePackage("a", <<SimpleTarget("a", "Lib", Some(LibRs))>>, Edition2015)}

RunDepPackages ==
    {SimplePackage("b", <<SimpleTarget("b", "Lib", Some(DepLibRs))>>, Edition2018),
     SimplePackage("b", <<SimpleTarget("b", "Bin", Some(DepLibRs))>>, Edition2018)}

InitRun ==
    /\ pc = "start"
    /\ IsRunSnapshot(fs)
    /\ \E main \in RunMainPackages, deps \in SeqsUpTo(RunDepPackages, MaxDeps) :
           pkgs = <<main>> \o deps
    /\ seed = <<>>
    /\ sub_mods = <<>>
    /\ parsed = <<>>
    /\ generator = ""
    /\ output = <<>>
    /\ remaining = <<>>
    /\ NoDepGraph
    /\ use_path = UsePath_new(<<>>, "Public")
    /\ containing_mod = <<>>
    /\ local_path = use_path
    /\ start_mod = <<>>
    /\ Idle

\* std_lib_info: the tables of explore.rs:276-281, each call ended by `?`
IndexTables ==
    /\ pc = "start"
    /\ \E consts \in {Table("consts_from_items")},
          type_aliases \in {Table("type_aliases_from_items")},
          modules \in {Table("modules_from_items")},
          extern \in {Table("extern_crates_from_items")} :
       LET failed == SelectSeq(<<consts.st, type_aliases.st, modules.st, extern.st>>,
                               LAMBDA st : st # "ok")
       IN IF failed # <<>>
          THEN pc' = Head(failed) /\ UNCHANGED <<items, extern_crates>>
          ELSE /\ pc' = "trees"
               /\ \E c \in into_values(consts.things), ty \in into_values(type_aliases.things),
                     m \in into_values(modules.things) :
                      items' = [NoItems EXCEPT !["Const"] = c, !["TypeAlias"] = ty,
                                               !["Module"] = m]
               /\ extern_crates' = extern.things
    /\ edition' = Head(pkgs).edition
    /\ UNCHANGED <<use_path, containing_mod, local_path, start_mod, changed, result,
                   trees, ast, things>>
    /\ UNCHANGED discovery

\* std_lib_info: ItemTree::new for every kind (explore.rs:283-287)
BuildTrees ==
    /\ pc = "trees"
    /\ pc' = "use_paths"
    /\ trees' = [k \in Kinds |-> StructTree_new(items[k])]
    /\ UNCHANGED <<use_path, containing_mod, local_path, start_mod, changed, result,
                   items, extern_crates, edition, ast, things>>
    /\ UNCHANGED discovery

\* std_lib_info: `things_in_package(&std_pkg, true, use_paths_from_items)?`
\* and the order in which the loops below it will visit the table
IndexUsePaths ==
    /\ pc = "use_paths"
    /\ \E std_use_paths \in {things_in_package(fs, Head(pkgs), TRUE,
                                                 "use_paths_from_items")} :
       IF std_use_paths.st # "ok"
       THEN pc' = std_use_paths.st /\ UNCHANGED <<things, remaining>>
       ELSE /\ pc' = "resolve"
            /\ things' = std_use_paths.things
            /\ remaining' \in iter_use_paths(std_use_paths.things)
    /\ UNCHANGED <<use_path, containing_mod, local_path, start_mod, changed, result,
                   items, trees, extern_crates, edition, ast>>
    /\ UNCHANGED <<fs, pkgs, seed, sub_mods, parsed, generator, output>>
    /\ UNCHANGED depgraph

\* std_lib_info: one iteration of the inner loop of explore.rs:314-322
ResolveNext ==
    /\ pc = "resolve"
    /\ remaining # <<>>
    /\ LET path == Head(remaining)[1]
           up == Head(remaining)[2]
       IN IF up.vis = "Public"
          THEN \E r \in {resolve(up, path)} :
               /\ use_path' = up
               /\ containing_mod' = path
               /\ local_path' = r.use_path
               /\ start_mod' = r.start_mod
               /\ IF r.panic
                  THEN pc' = "panic" /\ UNCHANGED <<result, output>>
                  ELSE /\ pc' = pc
                       /\ result' \in hash_orders(r.items)
                       /\ output' = Append(output, <<path, up, result'>>)
          ELSE UNCHANGED <<pc, use_path, containing_mod, local_path, start_mod, result,
                           output>>
    /\ remaining' = Tail(remaining)
    /\ UNCHANGED <<changed, items, trees, extern_crates, edition, ast, things>>
    /\ UNCHANGED <<fs, pkgs, seed, sub_mods, parsed, generator>>
    /\ UNCHANGED depgraph

\* std_lib_info: `Ok(())` after the loops
Finish ==
    /\ pc = "resolve"
    /\ remaining = <<>>
    /\ NoDepGraph
    /\ pc' = "done"
    /\ UNCHANGED <<use_path, containing_mod, local_path, start_mod, changed, result,
                   items, trees, extern_crates, edition, ast, things>>
    /\ UNCHANGED discovery

NextRun ==
    \/ IndexTables
    \/ BuildTrees
    \/ IndexUsePaths
    \/ ResolveNext
    \/ Finish

SpecRun == InitRun /\ [][NextRun]_vars

\* the use declarations the use extractor finds in the indexed crates
FoundUsePaths == Table("use_paths_from_items").things

\* the number of printed tuples for use-path up of module path
Tuples(path, up) ==
    Cardinality({i \in 1..Len(output) : output[i][1] = path /\ output[i][2] = up})

\* C19: every use declaration found by the use extractor, in every module of
\* every indexed crate and whatever its visibility, has been passed to the
\* resolver exactly once and has produced exactly one output tuple when the
\* run completes.
C19_EveryUsePath ==
    pc = "done" =>
        \A path \in DOMAIN FoundUsePaths : \A i \in 1..Len(FoundUsePaths[path]) :
            Tuples(path, FoundUsePaths[path][i])
                = Count(FoundUsePaths[path], FoundUsePaths[path][i])

\* a private `use m::S;` of the main crate is never resolved
C19_ScenarioInherited ==
    /\ pc = "done"
    /\ \E path \in DOMAIN things : \E i \in 1..Len(things[path]) :
           things[path][i].vis = "Inherited" /\ Tuples(path, things[path][i]) = 0

\* a `pub use S;` of the dependency b is never resolved
C19_ScenarioDependency ==
    /\ pc = "done"
    /\ \E path \in DOMAIN FoundUsePaths : \E i \in 1..Len(FoundUsePaths[path]) :
           /\ path[1] = PathComponent_Name("b")
           /\ FoundUsePaths[path][i].vis = "Public"
           /\ Tuples(path, FoundUsePaths[path][i]) = 0

\* the trees built from the tables when the keys are taken in one fixed order
FixedOrderTrees ==
    LET flat(gen) == CHOOSE list \in into_values(Table(gen).things) : TRUE IN
    [NoTrees EXCEPT
        !["Const"] = StructTree_new(flat("consts_from_items")),
        !["TypeAlias"] = StructTree_new(flat("type_aliases_from_items")),
        !["Module"] = StructTree_new(flat("modules_from_items"))]

\* the public use declarations of the main crate
PublicUsePaths ==
    UNION {{<<path, things[path][i]>> :
               i \in {j \in 1..Len(things[path]) : things[path][j].vis = "Public"}} :
           path \in DOMAIN things}

\* a list of resolved items taken as a bag: every entry with its multiplicity
AsBag(list) ==
    [e \in {list[i] : i \in 1..Len(list)} |-> Count(list, e)]

TreesBuilt == pc \in {"use_paths", "resolve", "done"}

\* C20 as stated: the tuples of a completed run are the same set whatever the
\* order of the hash maps, every tuple with its list of resolved items.
C20_Original ==
    /\ TreesBuilt => trees = FixedOrderTrees
    /\ pc = "done" =>
           {output[i] : i \in 1..Len(output)}
               = {<<pair[1], pair[2], resolve(pair[2], pair[1]).items>> :
                     pair \in PublicUsePaths}

\* C20 (amended): whatever the order in which the hash maps are iterated, the
\* trees are the same, and the tuples of a completed run are the same set when
\* the resolved items of a tuple are compared as a bag, not as a list.
C20_Deterministic ==
    /\ TreesBuilt => trees = FixedOrderTrees
    /\ pc = "done" =>
           {<<output[i][1], output[i][2], AsBag(output[i][3])>> : i \in 1..Len(output)}
               = {<<pair[1], pair[2], AsBag(resolve(pair[2], pair[1]).items)>> :
                     pair \in PublicUsePaths}

\* `pub use m::*;` with two constants in m.rs: the two entries of the glob are
\* printed in the other order
C20_Witness ==
    /\ pc = "done"
    /\ \E i \in 1..Len(output) :
           /\ Len(output[i][3]) = 2
           /\ output[i][3] # resolve(output[i][2], output[i][1]).items
    /\ Len(items["Const"]) >= 2

(***************************************************************************)
(* Further properties of the resolver (Spec) and of delocalize             *)
(* (SpecDelocalize).                                                       *)
(***************************************************************************)
\* C21: for a crate of an edition earlier than 2018, resolving any use-path
\* from any containing module returns no result list: it ends in the fatal
\* outcome.
C21_Edition ==
    (pc # "build" /\ edition < Edition2018) => (pc = "panic" /\ result = <<>>)

\* edition 2015, a query that resolves under 2018 rules: self::S from a::m,
\* with struct S of a::m in the index
C21_Witness ==
    /\ pc = "panic"
    /\ edition = Edition2015
    /\ use_path.path = <<UName("self"), UName("S")>>
    /\ containing_mod = Path_from(<<"a", "m">>)
    /\ LookupAll(UsePath_new(<<UName("S")>>, "Public"), containing_mod) # <<>>

\* the use-path with its last segment replaced by l
WithLast(up, l) == [up EXCEPT !.path = Append(Prefix(up), l)]

\* C22: delocalize fails whenever a segment other than the last is a rename, a
\* glob or the empty marker, and whether it fails does not depend on the form
\* of the last segment.
C22_InvalidUsePath ==
    pc # "start" =>
        /\ ~PlainPrefix(use_path) => pc = "panic"
        /\ \A l \in LastSegs :
               delocalize(WithLast(use_path, l), containing_mod).panic = (pc = "panic")

\* a rename in the middle of the prefix
C22_Witness ==
    /\ pc = "panic"
    /\ use_path.path = <<UName("m"), URename("S", "T"), UName("S")>>
    /\ containing_mod # <<>>

\* the empty marker as last segment after a plain prefix: no failure
C22_WitnessLast ==
    /\ pc = "done"
    /\ use_path.path = <<UName("self"), UName("m"), UEmpty>>
    /\ local_path.path = <<UName("m"), UEmpty>>

\* the use-paths replace_first is specified to reject
NoPlainFirst(up) == up.path = <<>> \/ up.path[1].t # "Name"

\* C23: replace_first fails when the use-path is empty or its first segment is
\* not a plain identifier; otherwise it replaces only the first segment and
\* leaves the later segments and the visibility unchanged.
C23_ReplaceFirst ==
    pc \in {"replaced", "panic"} =>
        IF NoPlainFirst(use_path)
        THEN pc = "panic"
        ELSE /\ pc = "replaced"
             /\ local_path.path[1].t = "Name"
             /\ Tail(local_path.path) = Tail(use_path.path)
             /\ local_path.vis = use_path.vis

\* replace_first on `*`: the call returns and the path is as before
C23_Scenario ==
    /\ pc = "replaced"
    /\ use_path.path = <<UGlob>>
    /\ local_path = use_path

\* index of the last `super` in the prefix, 0 when there is none
LastSuper(up) ==
    LET P == {i \in 1..Len(up.path) - 1 : up.path[i] = UName("super")} IN
    IF P = {} THEN 0 ELSE CHOOSE i \in P : \A j \in P : j <= i

\* the prefix is of plain names, holds more `super` than the containing module
\* has segments, and no `crate` after the last of them
SupersBeyondRoot ==
    /\ use_path.path # <<>>
    /\ PlainPrefix(use_path)
    /\ SupersAfter(use_path, 0) > Len(containing_mod)
    /\ LastCrate(use_path) < LastSuper(use_path)

\* a returned base is a prefix of the containing module
BaseWithinModule == pc = "done" => IsPrefix(start_mod, containing_mod)

RootScopeDecls ==
    {ExternCrate_new("b", Some("k"), Path_from(<<"a">>), "Inherited"),
     ExternCrate_new("b", None, Path_from(<<"a">>), "Inherited")}

\* `extern crate p as k;` and `extern crate p as b;` in the module a::m
ModuleScopeDecls ==
    {ExternCrate_new("p", Some("k"), Path_from(<<"a", "m">>), "Inherited"),
     ExternCrate_new("p", Some("b"), Path_from(<<"a", "m">>), "Inherited")}

\* the table of the declarations, a scope without declarations having no key
TableOf(root_decls, module_decls) ==
    (IF root_decls = <<>> THEN <<>> ELSE (Path_from(<<"a">>) :> root_decls))
    @@ (IF module_decls = <<>> THEN <<>> ELSE (Path_from(<<"a", "m">>) :> module_decls))

\* the structs of the index: S in the crates b and p, and possibly in a::m
FallbackItems ==
    {<<Struct_new("S", "Public", Path_from(<<"b">>)),
       Struct_new("S", "Public", Path_from(<<"p">>))>>,
     <<Struct_new("S", "Public", Path_from(<<"b">>)),
       Struct_new("S", "Public", Path_from(<<"p">>)),
       Struct_new("S", "Public", Path_from(<<"a", "m">>))>>}

FallbackInputs ==
    {UsePath_new(<<f, l>>, "Public") :
        f \in {UName("k"), UName("b"), UName("p"), UName("self")},
        l \in {UName("S"), UGlob}}

InitFallback ==
    /\ pc = "build"
    /\ NoDiscovery
    /\ use_path = UsePath_new(<<>>, "Public")
    /\ containing_mod = <<>>
    /\ local_path = use_path
    /\ start_mod = <<>>
    /\ changed = FALSE
    /\ result = <<>>
    /\ \E structs \in FallbackItems :
           /\ items = [NoItems EXCEPT !["Struct"] = structs]
           /\ trees = [NoTrees EXCEPT !["Struct"] = StructTree_new(structs)]
    /\ \E root_decls \in SeqsUpTo(RootScopeDecls, MaxExternCrates),
          module_decls \in SeqsUpTo(ModuleScopeDecls, MaxExternCrates) :
           extern_crates = TableOf(root_decls, module_decls)
    /\ edition = Edition2018
    /\ ast = <<>>
    /\ things = <<>>

NextFallback ==
    \E up \in FallbackInputs, cm \in {Path_from(<<"a">>), Path_from(<<"a", "m">>)} :
        Resolve(up, cm)

SpecFallback == InitFallback /\ [][NextFallback]_vars

\* the call went to the global lookup: not absolute, and nothing found locally
GlobalFallback ==
    /\ Resolved2018
    /\ ~begins_with_empty(use_path)
    /\ LET d == delocalize(use_path, containing_mod) IN
       LookupAll(d.use_path, d.ret) = <<>>

\* C25: in the global fallback the rename table is consulted first under the
\* crate-root path of the containing module, and under the full containing
\* module only if the crate-root scope changed nothing: the looked-up path is
\* the one the crate-root scope gives when that scope renames, whatever the
\* scope of the containing module declares, and else the one the scope of the
\* containing module gives.
C25_ScopeOrder ==
    GlobalFallback =>
        LET d == delocalize(use_path, containing_mod)
            root == extern_crate_rename(d.use_path, <<containing_mod[1]>>, extern_crates)
            full == extern_crate_rename(d.use_path, containing_mod, extern_crates)
        IN /\ root.changed => local_path = root.use_path
           /\ ~root.changed => local_path = full.use_path
           /\ start_mod = <<>>
           /\ result = LookupAll(local_path, <<>>)

\* k::S from a::m with `extern crate b as k;` in a and `extern crate p as k;`
\* `extern crate p as b;` in a::m: the root scope renames, a::m is not consulted
C25_Witness ==
    /\ GlobalFallback
    /\ containing_mod = Path_from(<<"a", "m">>)
    /\ use_path.path = <<UName("k"), UName("S")>>
    /\ extern_crate_rename(use_path, containing_mod, extern_crates).use_path.path
           = <<UName("p"), UName("S")>>
    /\ extern_crate_rename(UsePath_new(<<UName("b"), UName("S")>>, "Public"),
                           containing_mod, extern_crates).changed
    /\ local_path.path = <<UName("b"), UName("S")>>
    /\ Len(result) = 1

(***************************************************************************)
(* Further properties of the item-tree lookup (SpecTree)                   *)
(***************************************************************************)
\* some segment before the last one is no plain identifier
NonPlainBeforeLast(up) ==
    /\ Len(up.path) >= 2
    /\ \E i \in 1..(Len(up.path) - 1) : up.path[i].t # "Name"

\* C26: an item-tree lookup of a use-path of two or more segments in which a
\* segment before the last one is no plain identifier (glob, rename, empty)
\* returns the empty list and does not fail.
C26_NonPlainSegment ==
    (pc \in {"done", "panic"} /\ NonPlainBeforeLast(use_path)) =>
        (pc = "done" /\ result = <<>>)

\* *::S looked up from the root of a tree that holds a::S: the walk reaches
\* the glob and as_name().unwrap() aborts
C26_Scenario ==
    /\ pc = "panic"
    /\ use_path.path = <<UGlob, UName("S")>>
    /\ start_mod = <<>>
    /\ Len(items["Struct"]) = 1
    /\ items["Struct"][1].name = "S"

(***************************************************************************)
(* Further properties of the discovery of sub-modules (SpecSubmodule)      *)
(***************************************************************************)
\* the key of the assignment inside a cfg_attr attribute
KeyOf(attr) == IF "key" \in DOMAIN attr THEN attr.key ELSE "path"

\* the attribute has one of the two shapes that name a file:
\* path = "lit" or cfg_attr(cond, path = "lit")
NamesFile(attr) ==
    \/ attr.name = "path" /\ attr.ok
    \/ attr.name = "cfg_attr" /\ attr.ok /\ KeyOf(attr) = "path"

\* the override of a declaration when every other attribute is ignored
RECURSIVE LenientOverride(_)
LenientOverride(attrs) ==
    IF attrs = <<>> THEN None
    ELSE IF NamesFile(Head(attrs)) THEN Some(Head(attrs).value)
    ELSE LenientOverride(Tail(attrs))

\* the `mod X;` declarations of the file of the seed, `mod r#try;` left out
Declared ==
    SelectSeq(fs[seed.path].items,
              LAMBDA item : item.t = "Mod" /\ item.content = None /\ item.ident # "r#try")

\* C27: attribute handling is lenient: only an attribute of the shape
\* path = "lit" or cfg_attr(cond, path = "lit") gives a declaration its
\* override; every other attribute, a `path` attribute of another shape and a
\* cfg_attr whose key is not `path` included, is ignored and never makes the
\* reading of the declarations fail.
C27_Lenient ==
    pc # "start" =>
        /\ empty_modules_from_file(fs, seed.path).st = "some"
        /\ Len(Recorded) = Len(Declared)
        /\ \A i \in 1..Len(Declared) :
               Recorded[i].path = LenientOverride(Declared[i].attrs)

\* `#[path(..)] mod z;`, a path attribute of another shape, alone in lib.rs
\* with src/z.rs present: discovery fails
C27_ScenarioPathShape ==
    /\ pc = "err"
    /\ seed.path = <<"src", "lib.rs">>
    /\ Len(fs[seed.path].items) = 1
    /\ fs[seed.path].items[1].attrs = <<Attr_path(<<>>, FALSE)>>
    /\ Exists(<<"src", "z.rs">>)

\* `#[cfg_attr(unix, doc = "w.rs")] mod y;`: the literal is taken for the file
C27_ScenarioKey ==
    /\ pc = "done"
    /\ Len(fs[seed.path].items) = 1
    /\ fs[seed.path].items[1].attrs = <<Attr_cfg_attr_keyed("unix", "doc", <<"w.rs">>)>>
    /\ Exists(<<"src", "y.rs">>)
    /\ sub_mods[1].path = <<"src", "w.rs">>

(***************************************************************************)
(* Further properties of the resolver (Spec): the crate of the entries     *)
(***************************************************************************)
\* the module path an entry of the result lies at: the containing module of
\* an item, the path of a module
EntryPath(e) == IF e.entry.t = "Struct" THEN e.entry.item.module ELSE e.entry.path

\* the use-path is relative: its first segment is self, super or crate
IsRelative(up) == up.path # <<>> /\ IsSpecial(up.path[1])

C28_ScenarioFallback ==
    /\ Resolved2018
    /\ use_path.path = <<UName("self"), UName("m"), UName("S")>>
    /\ containing_mod = Path_from(<<"a", "m">>)
    /\ start_mod = <<>>
    /\ Len(result) = 1
    /\ result[1].entry.t = "Struct"
    /\ result[1].entry.item.module = Path_from(<<"b">>)

\* super::b resolved from the crate root a: the base is empty and the local
\* lookup itself returns the crate root module b
C28_ScenarioSuper ==
    /\ Resolved2018
    /\ use_path.path = <<UName("super"), UName("b")>>
    /\ containing_mod = Path_from(<<"a">>)
    /\ start_mod = <<>>
    /\ local_path.path = <<UName("b")>>
    /\ Len(result) = 1
    /\ EntryPath(result[1]) = Path_from(<<"b">>)

(***************************************************************************)
(* SpecChain: the recursion of things_from_submodules, one action per step *)
(* of a call.  `remaining` holds the innermost MaxChain calls that have    *)
(* not returned, the innermost last, each with the sub-modules it has yet  *)
(* to recurse into.  A call keeps the fields of its Module that the        *)
(* recursion reads: the file, the name and the category.                   *)
(***************************************************************************)
MaxChain == 4   \* number of nested calls of things_from_submodules kept

\* one call of things_from_submodules that has not returned: "called" before
\* its file is read, "recursing" after; nested is whether the caller is
\* things_from_submodules itself
Frame(module, stage, todo, nested) ==
    [module |-> module, stage |-> stage, todo |-> todo, nested |-> nested]

\* the Module of a call without the labels of its output
Unlabelled(module) == [module EXCEPT !.rust_path = <<>>, !.vis = "Public"]

\* things_from_submodules up to the recursion: Err from a file that cannot be
\* read or a sub-module that is not found, Ok(empty) on a parse failure, a
\* panic of things_from_file(..).unwrap() on a sub-module file that cannot be read
explore_module(module, files) ==
    LET empty_mods == empty_modules_from_file(files, module.path) IN
    IF empty_mods.st = "err" THEN [st |-> "err", subs |-> <<>>]
    ELSE IF empty_mods.st = "none" THEN [st |-> "ok", subs |-> <<>>]
    ELSE LET found == direct_submodules(module, empty_mods.mods, files) IN
         IF found.err THEN [st |-> "err", subs |-> <<>>]
         ELSE IF \E i \in 1..Len(found.mods) : ~can_read(files, found.mods[i].path)
         THEN [st |-> "panic", subs |-> <<>>]
         ELSE [st |-> "ok", subs |-> [i \in 1..Len(found.mods) |-> Unlabelled(found.mods[i])]]

\* s without its i-th element
Without(s, i) == SubSeq(s, 1, i - 1) \o SubSeq(s, i + 1, Len(s))

\* the innermost MaxChain calls of a chain
Innermost(chain) ==
    IF Len(chain) > MaxChain THEN SubSeq(chain, Len(chain) - MaxChain + 1, Len(chain))
    ELSE chain

\* what the return of the innermost call leaves: the root call returns to
\* std_lib_info, a nested call to its caller
after_return(chain, st) ==
    IF Len(chain) > 1 THEN [pc |-> "exploring", chain |-> Front(chain)]
    ELSE IF Last(chain).nested THEN [pc |-> "cut", chain |-> <<>>]
    ELSE [pc |-> st, chain |-> <<>>]

ChainDecls ==
    {Item_ModDecl("y", <<>>, "Public"),
     Item_ModDecl("y", <<Attr_path(<<"w.rs">>, TRUE)>>, "Public"),
     Item_ModDecl("z", <<Attr_path(<<"lib.rs">>, TRUE)>>, "Public")}

InitChain ==
    /\ pc = "start"
    /\ seed = Unlabelled(Module(<<"src", "lib.rs">>, Path_from(<<"a">>), "a", "Root", "Public"))
    /\ \E root_decls \in SeqsUpTo(ChainDecls, MaxEmptyMods),
          w_decls \in SeqsUpTo(ChainDecls, 1),
          existing \in SUBSET {<<"src", "y.rs">>, <<"src", "y", "y.rs">>} :
           fs = (<<"src", "lib.rs">> :> FileItems(root_decls))
                @@ (<<"src", "w.rs">> :> FileItems(w_decls))
                @@ [f \in existing |-> FileItems(<<>>)]
    /\ pkgs = <<>>
    /\ sub_mods = <<>>
    /\ parsed = <<>>
    /\ generator = ""
    /\ output = <<>>
    /\ remaining = <<>>
    /\ NoDepGraph
    /\ use_path = UsePath_new(<<>>, "Public")
    /\ containing_mod = <<>>
    /\ local_path = use_path
    /\ start_mod = <<>>
    /\ Idle

\* the call of things_from_submodules on the module of the crate root
StartDiscovery ==
    /\ pc = "start"
    /\ remaining' = <<Frame(seed, "called", <<>>, FALSE)>>
    /\ pc' = "exploring"
    /\ UNCHANGED <<use_path, containing_mod, local_path, start_mod, changed, result,
                   items, trees, extern_crates, edition, ast, things>>
    /\ UNCHANGED <<fs, pkgs, seed, sub_mods, parsed, generator, output>>
    /\ UNCHANGED depgraph

\* the innermost call reads its file and locates its sub-modules
\* (explore.rs:519-536).  The Err of a nested call is replaced by an empty
\* map in its caller (unwrap_or_else), the Err of the root call is returned;
\* a panic is not caught.
Explore ==
    /\ pc = "exploring"
    /\ Last(remaining).stage = "called"
    /\ \E call \in {explore_module(Last(remaining).module, fs)} :
           CASE call.st = "ok" ->
                    /\ remaining' = Append(Front(remaining),
                                           Frame(Last(remaining).module, "recursing",
                                                 call.subs, Last(remaining).nested))
                    /\ pc' = pc
             [] call.st = "err" ->
                    /\ remaining' = after_return(remaining, "err").chain
                    /\ pc' = after_return(remaining, "err").pc
             [] call.st = "panic" ->
                    /\ remaining' = <<>>
                    /\ pc' = "panic"
    /\ UNCHANGED <<use_path, containing_mod, local_path, start_mod, changed, result,
                   items, trees, extern_crates, edition, ast, things>>
    /\ UNCHANGED <<fs, pkgs, seed, sub_mods, parsed, generator, output>>
    /\ UNCHANGED depgraph

\* the innermost call recurses into one of its sub-modules (the second
\* par_iter of things_from_submodules)
Descend(i) ==
    /\ pc = "exploring"
    /\ Last(remaining).stage = "recursing"
    /\ i \in 1..Len(Last(remaining).todo)
    /\ LET top == Last(remaining) IN
       remaining' =
           Innermost(Front(remaining)
                     \o <<Frame(top.module, "recursing", Without(top.todo, i), top.nested),
                          Frame(top.todo[i], "called", <<>>, TRUE)>>)
    /\ pc' = pc
    /\ UNCHANGED <<use_path, containing_mod, local_path, start_mod, changed, result,
                   items, trees, extern_crates, edition, ast, things>>
    /\ UNCHANGED <<fs, pkgs, seed, sub_mods, parsed, generator, output>>
    /\ UNCHANGED depgraph

\* the innermost call has recursed into all its sub-modules and returns Ok
Return ==
    /\ pc = "exploring"
    /\ Last(remaining).stage = "recursing"
    /\ Last(remaining).todo = <<>>
    /\ remaining' = after_return(remaining, "done").chain
    /\ pc' = after_return(remaining, "done").pc
    /\ UNCHANGED <<use_path, containing_mod, local_path, start_mod, changed, result,
                   items, trees, extern_crates, edition, ast, things>>
    /\ UNCHANGED <<fs, pkgs, seed, sub_mods, parsed, generator, output>>
    /\ UNCHANGED depgraph

NextChain ==
    \/ StartDiscovery
    \/ Explore
    \/ \E i \in 1..MaxEmptyMods : Descend(i)
    \/ Return

SpecChain == InitChain /\ [][NextChain]_vars

\* every call that can proceed does proceed
FairChain == SpecChain /\ WF_vars(NextChain)

\* the files of the calls kept, the outermost first
ChainFiles == [k \in 1..Len(remaining) |-> remaining[k].module.path]

\* a file is read by two calls of which one is nested in the other
FileTwiceOnChain ==
    \E j, k \in 1..Len(remaining) : j < k /\ ChainFiles[j] = ChainFiles[k]

\* calls are dropped from `remaining` only where a file repeats on the chain
\* (without path attributes a nested call reads a file one directory level
\* deeper or fails), and no call returns to a caller that was dropped
ChainCutOnlyOnCycle ==
    /\ pc # "cut"
    /\ (remaining # <<>> /\ remaining[1].nested) => FileTwiceOnChain

\* C29: discovery terminates for every finite set of files, also when a path
\* attribute refers back to a file on the current discovery chain.
C29_Terminates == <>(pc \in {"done", "err", "panic"})

\* `#[path = "lib.rs"] mod z;` in src/lib.rs: the call for z reads lib.rs
\* again, and so does every call nested in it
C29_Scenario ==
    /\ pc = "exploring"
    /\ Len(fs[<<"src", "lib.rs">>].items) = 1
    /\ Len(remaining) = MaxChain
    /\ remaining[1].nested
    /\ \A k \in 1..Len(remaining) : remaining[k].module.path = <<"src", "lib.rs">>
    /\ Last(remaining).todo # <<>>

(***************************************************************************)
(* SpecDag: depgraph.rs and depgraph/dag.rs.  The dependency graph of the  *)
(* main package is turned into a Dag, and the Dag into an order of the     *)
(* packages.  A package is a number; packages are compared by it.          *)
(***************************************************************************)
MaxPkgs == 4   \* number of packages of a dependency graph

Pkgs == 1..MaxPkgs

\* depgraph.rs: struct Crate
Crate(pkg, dependencies) == [pkg |-> pkg, dependencies |-> dependencies]

\* the elements of a set of packages in the order of Ord for Crate
Sorted(S) == SelectSeq([i \in 1..MaxPkgs |-> i], LAMBDA p : p \in S)

\* rec_graph_create: the crate of pkg with the crates of its dependencies,
\* sorted; a crate met again is a clone of the one built first
RECURSIVE rec_graph_create(_, _)
rec_graph_create(pkg, dep_pkgs) ==
    Crate(pkg, [i \in 1..Len(Sorted(dep_pkgs[pkg])) |->
                    rec_graph_create(Sorted(dep_pkgs[pkg])[i], dep_pkgs)])

\* Crate::sub_crates
RECURSIVE sub_crates(_)
sub_crates(crate) ==
    {crate.pkg} \cup UNION {sub_crates(crate.dependencies[i]) :
                               i \in 1..Len(crate.dependencies)}

\* dag.rs: struct Node
Node(pkg, dependents) == [pkg |-> pkg, dependents |-> dependents]

\* Node::free_node
free_node(pkg) == Node(pkg, <<>>)

\* DepGraph::dag, the body of the loop over crt.dependencies: add_dependent
\* on the node of every dependency
add_dependents(nodes, crt) ==
    [i \in 1..Len(nodes) |->
        IF \E k \in 1..Len(crt.dependencies) : crt.dependencies[k].pkg = nodes[i].pkg
        THEN Node(nodes[i].pkg, Append(nodes[i].dependents, crt.pkg))
        ELSE nodes[i]]

\* DepGraph::dag, the loop `while !stack.is_empty()`
RECURSIVE dag_loop(_, _)
dag_loop(stack, nodes) ==
    IF stack = <<>> THEN nodes
    ELSE dag_loop(Front(stack) \o Last(stack).dependencies,
                  add_dependents(nodes, Last(stack)))

\* DepGraph::dag with the packages of the HashSet crates() met in the given order
DepGraph_dag(crate, order) ==
    dag_loop(<<crate>>, [i \in 1..Len(order) |-> free_node(order[i])])

\* node_map[pkg]
node_map(nodes, pkg) == nodes[CHOOSE i \in 1..Len(nodes) : nodes[i].pkg = pkg]

\* the state of the sort: the visited map and pkg_order
Visit(st, pkg) == [visited |-> [st.visited EXCEPT ![pkg] = TRUE], pkg_order |-> st.pkg_order]

Push(st, pkg) == [visited |-> st.visited, pkg_order |-> Append(st.pkg_order, pkg)]

\* toposort_rec, and its loop over node.dependents
RECURSIVE toposort_rec(_, _, _)
RECURSIVE toposort_dependents(_, _, _)
toposort_rec(nodes, node, st) ==
    Push(toposort_dependents(nodes, node.dependents, Visit(st, node.pkg)), node.pkg)

toposort_dependents(nodes, dependents, st) ==
    IF dependents = <<>> THEN st
    ELSE toposort_dependents(nodes, Tail(dependents),
                             IF ~st.visited[Head(dependents)]
                             THEN toposort_rec(nodes, node_map(nodes, Head(dependents)), st)
                             ELSE st)

\* Dag::topological_order, the loop `for node in &self.nodes`
RECURSIVE toposort_nodes(_, _, _)
toposort_nodes(nodes, k, st) ==
    IF k > Len(nodes) THEN st
    ELSE toposort_nodes(nodes, k + 1,
                        IF ~st.visited[nodes[k].pkg] THEN toposort_rec(nodes, nodes[k], st)
                        ELSE st)

\* the order of the visits returned as it is
Vec_unreversed(v) == v

\* Vec::reverse
Vec_reverse(v) == [i \in 1..Len(v) |-> v[Len(v) + 1 - i]]

\* Dag::topological_order
topological_order(nodes) ==
    Vec_reverse(toposort_nodes(nodes, 1,
                    [visited |-> [p \in {nodes[i].pkg : i \in 1..Len(nodes)} |-> FALSE],
                     pkg_order |-> <<>>]).pkg_order)

\* the dependencies of the packages: every edge leads to a greater package
\* and the main package is the least, or to a lesser one and it is the greatest
Ascending == {<<p, q>> \in Pkgs \X Pkgs : p < q}

Descending == {<<p, q>> \in Pkgs \X Pkgs : p > q}

DepsOf(edges) == [p \in Pkgs |-> {q \in Pkgs : <<p, q>> \in edges}]

InitDag ==
    /\ pc = "start"
    /\ \/ \E edges \in SUBSET Ascending : dep_graph = rec_graph_create(1, DepsOf(edges))
       \/ \E edges \in SUBSET Descending : dep_graph = rec_graph_create(MaxPkgs, DepsOf(edges))
    /\ dag = <<>>
    /\ pkg_order = <<>>
    /\ fs = <<>>
    /\ pkgs = <<>>
    /\ seed = <<>>
    /\ sub_mods = <<>>
    /\ parsed = <<>>
    /\ generator = ""
    /\ output = <<>>
    /\ remaining = <<>>
    /\ use_path = UsePath_new(<<>>, "Public")
    /\ containing_mod = <<>>
    /\ local_path = use_path
    /\ start_mod = <<>>
    /\ Idle

\* DepGraph::dag; the nodes are in the order in which the HashSet is iterated
BuildDag ==
    /\ pc = "start"
    /\ \E order \in Orders(sub_crates(dep_graph)) : dag' = DepGraph_dag(dep_graph, order)
    /\ pc' = "dag"
    /\ UNCHANGED <<use_path, containing_mod, local_path, start_mod, changed, result,
                   items, trees, extern_crates, edition, ast, things>>
    /\ UNCHANGED <<fs, pkgs, seed, sub_mods, parsed, generator, output, remaining>>
    /\ UNCHANGED <<dep_graph, pkg_order>>

\* Dag::topological_order
TopologicalOrder ==
    /\ pc = "dag"
    /\ pkg_order' = topological_order(dag)
    /\ pc' = "done"
    /\ UNCHANGED <<use_path, containing_mod, local_path, start_mod, changed, result,
                   items, trees, extern_crates, edition, ast, things>>
    /\ UNCHANGED <<fs, pkgs, seed, sub_mods, parsed, generator, output, remaining>>
    /\ UNCHANGED <<dep_graph, dag>>

NextDag ==
    \/ BuildDag
    \/ TopologicalOrder

SpecDag == InitDag /\ [][NextDag]_vars

\* the pairs <<p, q>> with q a dependency of p in the dependency graph
RECURSIVE DependsOn(_)
DependsOn(crate) ==
    {<<crate.pkg, crate.dependencies[i].pkg>> : i \in 1..Len(crate.dependencies)}
    \cup UNION {DependsOn(crate.dependencies[i]) : i \in 1..Len(crate.dependencies)}

\* the position of a package in pkg_order
PositionOf(p) == CHOOSE i \in 1..Len(pkg_order) : pkg_order[i] = p

\* C30: the order returned for the dag of an acyclic dependency graph holds
\* every package of the graph exactly once, and every package stands before
\* each package that depends on it, also when it is reached through several
\* dependency paths.
C30_TopologicalOrder ==
    pc = "done" =>
        /\ Len(pkg_order) = Cardinality(sub_crates(dep_graph))
        /\ {pkg_order[i] : i \in 1..Len(pkg_order)} = sub_crates(dep_graph)
        /\ \A e \in DependsOn(dep_graph) : PositionOf(e[2]) < PositionOf(e[1])

\* the diamond 1 -> 2 -> 4, 1 -> 3 -> 4, the node of 4 first in the dag and
\* recorded with its dependents 2 and 3 once per path that reaches it
C30_Witness ==
    /\ pc = "done"
    /\ DependsOn(dep_graph) = {<<1, 2>>, <<1, 3>>, <<2, 4>>, <<3, 4>>}
    /\ dag[1].pkg = 1
    /\ dag[2].pkg = 4
    /\ Len(dag[2].dependents) = 2
    /\ pkg_order[1] = 4
    /\ pkg_order[4] = 1

====
